---- MODULE Spec2Model ----
(***************************************************************************)
(* A model of the trade-text parser (services/tradeParser): the number and *)
(* date normalizers, the six layout detectors, and the dispatcher          *)
(* parseTradeTextSmart with its acceptance gate, default merge and the     *)
(* asynchronous fallback to the AI collaborator.                           *)
(*                                                                         *)
(* Text is a sequence of one-character strings.  A JavaScript number is a  *)
(* record [nan, neg, mant, exp] denoting (-1)^neg * mant / 10^exp, or NaN. *)
(* A JavaScript value is a record [t, n, s] tagged "number", "string" or   *)
(* "undefined"; an object is a function from its own keys to values.       *)
(***************************************************************************)
EXTENDS Integers, Sequences, FiniteSets, TLC

VARIABLES
    text,       \* text[i]: the argument of invocation i of parseTradeTextSmart
    pc,         \* pc[i]: "idle", "awaitAI" (suspended on the collaborator), "done", "failed"
    detected,   \* detected[i]: what each detector gives on text[i] (for the properties)
    smartParse, \* smartParse[i]: what the detector chain gave (a partial record or Null)
    result,     \* result[i]: the record the promise resolved with
    path,       \* path[i]: "none", "heuristic" or "ai"
    aiCalls,    \* aiCalls[i]: the arguments of the calls made to the collaborator
    aiReply,    \* aiReply[i]: what the collaborator resolved with
    now,        \* the last reading of the wall clock (new Date())
    numIn,      \* the argument of a parseNumber call (normalizer specification)
    numOut,     \* its result
    currentUser,         \* App: the stored user name, NoUser when nobody is logged in
    hedgedPairs,         \* App: the list of hedged pairs on screen
    monthlyVolumeTarget, \* App
    startingEquity,      \* App
    isLoading,           \* App
    isModalOpen,         \* App: the order form is open
    editingPair,         \* App: the pair being edited, Null for a new pair
    inflight,            \* the loginUser calls that have not completed
    server,              \* server[u]: the data stored for user u
    saveCalls,           \* the arguments of the saveUserData calls of the latest commit
    formData,            \* OrderForm: the pair in the form
    aiTarget,            \* OrderForm: the trade the parse result goes to, NoTarget when none
    isAIPasteModalOpen,  \* OrderForm
    modalText,           \* AIPasteModal: text
    modalIsLoading,      \* AIPasteModal: isLoading
    modalError,          \* AIPasteModal: error
    attempt,             \* the latest call of handleParse: its parser invocation and how far it is
    completions          \* completions[i]: the arguments onParseComplete got from invocation i

parserVars == <<text, pc, detected, smartParse, result, path, aiCalls, aiReply, now, numIn, numOut>>

appVars == <<currentUser, hedgedPairs, monthlyVolumeTarget, startingEquity, isLoading,
             isModalOpen, editingPair, inflight, server, saveCalls>>

formVars == <<formData, aiTarget, isAIPasteModalOpen, modalText, modalIsLoading, modalError,
              attempt, completions>>

vars == <<parserVars, appVars, formVars>>

-----------------------------------------------------------------------------
(* Characters and character classes                                        *)

Digits == {"0", "1", "2", "3", "4", "5", "6", "7", "8", "9"}

DigitVal == [c \in Digits |->
    CASE c = "0" -> 0 [] c = "1" -> 1 [] c = "2" -> 2 [] c = "3" -> 3
      [] c = "4" -> 4 [] c = "5" -> 5 [] c = "6" -> 6 [] c = "7" -> 7
      [] c = "8" -> 8 [] c = "9" -> 9]

UpperLetters == {"A", "B", "C", "D", "E", "F", "G", "H", "I", "J", "K", "L", "M",
                 "N", "O", "P", "Q", "R", "S", "T", "U", "V", "W", "X", "Y", "Z"}

LowerLetters == {"a", "b", "c", "d", "e", "f", "g", "h", "i", "j", "k", "l", "m",
                 "n", "o", "p", "q", "r", "s", "t", "u", "v", "w", "x", "y", "z"}

\* String.prototype.toUpperCase on one character (the letters the captions use).
\* A Vietnamese letter is one character, written here in VIQR ("a'" is a-acute,
\* "a!" is a-grave, "o+?" is o-horn-hook, "a^?" is a-circumflex-hook, "DD" is
\* D-stroke).
UpperOf ==
    [c \in LowerLetters \cup {"a'", "o+?", "o'", "a!", "i'", "o!", "a^?", "dd"} |->
        CASE c = "a" -> "A" [] c = "b" -> "B" [] c = "c" -> "C" [] c = "d" -> "D"
          [] c = "e" -> "E" [] c = "f" -> "F" [] c = "g" -> "G" [] c = "h" -> "H"
          [] c = "i" -> "I" [] c = "j" -> "J" [] c = "k" -> "K" [] c = "l" -> "L"
          [] c = "m" -> "M" [] c = "n" -> "N" [] c = "o" -> "O" [] c = "p" -> "P"
          [] c = "q" -> "Q" [] c = "r" -> "R" [] c = "s" -> "S" [] c = "t" -> "T"
          [] c = "u" -> "U" [] c = "v" -> "V" [] c = "w" -> "W" [] c = "x" -> "X"
          [] c = "y" -> "Y" [] c = "z" -> "Z"
          [] c = "a'" -> "A'" [] c = "o+?" -> "O+?" [] c = "o'" -> "O'"
          [] c = "a!" -> "A!" [] c = "i'" -> "I'" [] c = "o!" -> "O!"
          [] c = "a^?" -> "A^?" [] c = "dd" -> "DD"]

ToUpper(c) == IF c \in DOMAIN UpperOf THEN UpperOf[c] ELSE c

\* The regular-expression classes of the source.
Space == {" ", "\t", "\n", "\r"}                  \* \s
Alpha == UpperLetters \cup LowerLetters           \* [A-Z] under the i flag
NumClass == Digits \cup {".", ","}                \* [\d.,]
FeeClass == NumClass \cup {"-"}                   \* [-\d.,]
PnlClass == NumClass \cup {"+", "-"}              \* [+-\d.,], the range +..- is + , -

\* const x = e; ... : e is evaluated once and the rest uses its value.
With(e, F(_)) == CHOOSE r \in {F(x) : x \in {e}} : TRUE

Max(S) == CHOOSE m \in S : \A k \in S : k <= m
Min(S) == CHOOSE m \in S : \A k \in S : m <= k

\* Length of the longest run of characters of class C that starts at s[p].
RECURSIVE Run(_, _, _)
Run(s, p, C) ==
    IF p >= 1 /\ p <= Len(s) /\ s[p] \in C THEN 1 + Run(s, p + 1, C) ELSE 0

\* The literal lit occurs in s at position p (ci: ignoring case, as under /i).
LitAt(s, p, lit, ci) ==
    /\ p >= 1
    /\ p + Len(lit) - 1 <= Len(s)
    /\ \A j \in 1..Len(lit) :
          IF ci THEN ToUpper(s[p + j - 1]) = ToUpper(lit[j])
                ELSE s[p + j - 1] = lit[j]

\* String.prototype.includes
Includes(s, lit) == \E p \in 1..Len(s) : LitAt(s, p, lit, FALSE)

\* A variant of ShapeAt: the pattern must reach the end of the string.
ShapeAtToEnd(s, p, shape) ==
    /\ p >= 1
    /\ p + Len(shape) - 1 = Len(s)
    /\ \A j \in 1..Len(shape) :
          CASE shape[j] = "#" -> s[p + j - 1] \in {"0", "1", "2", "3", "4", "5", "6", "7", "8", "9"}
            [] OTHER -> s[p + j - 1] = shape[j]

\* A fixed-width pattern at position p: "#" is \d, "_" is \s, anything else
\* is that literal character.
ShapeAt(s, p, shape) ==
    /\ p >= 1
    /\ p + Len(shape) - 1 <= Len(s)
    /\ \A j \in 1..Len(shape) :
          CASE shape[j] = "#" -> s[p + j - 1] \in Digits
            [] shape[j] = "_" -> s[p + j - 1] \in Space
            [] OTHER -> s[p + j - 1] = shape[j]

\* A variant of RemoveAll: only a leading occurrence is removed.
RemoveLeading(s, c) == IF s # <<>> /\ Head(s) = c THEN Tail(s) ELSE s

\* s.replace(/c/g, '') for a one-character pattern.
RECURSIVE RemoveAll(_, _)
RemoveAll(s, c) ==
    IF s = <<>> THEN <<>>
    ELSE IF Head(s) = c THEN RemoveAll(Tail(s), c)
         ELSE <<Head(s)>> \o RemoveAll(Tail(s), c)

\* s.replace(/[^...]/g, ''): keep the characters of class C.
Keep(s, C) == SelectSeq(s, LAMBDA c : c \in C)

\* s.replace(/a/g, b) for one-character a, b.
ReplaceAll(s, a, b) == [j \in 1..Len(s) |-> IF s[j] = a THEN b ELSE s[j]]

\* A variant of ReplaceFirst: nothing is replaced.
ReplaceNone(s, a, b) == s

\* s.replace(a, b) with a string pattern: the first occurrence only.
ReplaceFirst(s, a, b) ==
    LET ps == {j \in 1..Len(s) : s[j] = a}
    IN  IF ps = {} THEN s
        ELSE [j \in 1..Len(s) |-> IF j = Min(ps) THEN b ELSE s[j]]

\* s.lastIndexOf(c), 0-based, -1 when absent.
LastIndexOf(s, c) ==
    LET ps == {j \in 1..Len(s) : s[j] = c}
    IN  IF ps = {} THEN -1 ELSE Max(ps) - 1

\* s.trim()
Trim(s) ==
    LET ks == {j \in 1..Len(s) : s[j] \notin Space}
    IN  IF ks = {} THEN <<>> ELSE SubSeq(s, Min(ks), Max(ks))

-----------------------------------------------------------------------------
(* Numbers                                                                 *)

NaN == [nan |-> TRUE, neg |-> FALSE, mant |-> 0, exp |-> 0]

RECURSIVE StripZeros(_, _)
StripZeros(m, e) ==
    IF e > 0 /\ m % 10 = 0 THEN StripZeros(m \div 10, e - 1)
    ELSE [mant |-> m, exp |-> e]

\* The number (-1)^neg * m / 10^e in canonical form (0 and -0 are one value).
MkNum(neg, m, e) ==
    LET z == StripZeros(m, e)
    IN  [nan |-> FALSE, neg |-> (neg /\ m # 0), mant |-> z.mant, exp |-> z.exp]

Zero == MkNum(FALSE, 0, 0)

IsNaN(x) == x.nan

\* Unary minus (multiplication by -1): NaN stays NaN.
Negate(x) == IF x.nan THEN NaN ELSE MkNum(~x.neg, x.mant, x.exp)

\* Math.abs
MathAbs(x) == IF x.nan THEN NaN ELSE MkNum(FALSE, x.mant, x.exp)

\* x >= 0 as JavaScript evaluates it: false for NaN.
GeqZero(x) == ~x.nan /\ ~x.neg

RECURSIVE DigitsVal(_)
DigitsVal(s) ==
    IF s = <<>> THEN 0
    ELSE 10 * DigitsVal(SubSeq(s, 1, Len(s) - 1)) + DigitVal[s[Len(s)]]

\* parseFloat on a string without letters: optional sign, digits, optional
\* point and digits; the longest such prefix is read, and NaN results when it
\* holds no digit.
ParseFloat(s) ==
    LET sg == IF Len(s) > 0 /\ s[1] \in {"-", "+"} THEN 1 ELSE 0
        p  == 1 + sg
        ni == Run(s, p, Digits)
        dot == p + ni <= Len(s) /\ s[p + ni] = "."
        nf == IF dot THEN Run(s, p + ni + 1, Digits) ELSE 0
        ds == SubSeq(s, p, p + ni - 1) \o SubSeq(s, p + ni + 1, p + ni + nf)
    IN  IF ni = 0 /\ nf = 0 THEN NaN
        ELSE MkNum(sg = 1 /\ s[1] = "-", DigitsVal(ds), nf)

\* parseInt(s, 10) on a run of digits.
ParseInt(s) == MkNum(FALSE, DigitsVal(SubSeq(s, 1, Run(s, 1, Digits))), 0)

-----------------------------------------------------------------------------
(* NumberNormalizer                                                        *)

\* str.split(','): the part after the last comma.
LastPart(s) == SubSeq(s, LastIndexOf(s, ",") + 2, Len(s))

parseNumber(str) ==
    IF str = <<>> THEN Zero
    ELSE IF ShapeAt(str, 1, <<"#", "#", "#", "#", "-", "#", "#", "-", "#", "#">>) THEN Zero
    ELSE IF ShapeAt(str, 1, <<"#", "#", "/", "#", "#", "/", "#", "#", "#", "#">>) THEN Zero
    ELSE
      LET stripped == Keep(str, FeeClass)
          isNegative == Len(stripped) > 0 /\ stripped[1] = "-"
          cleaned0 == IF isNegative THEN Tail(stripped) ELSE stripped
          lastCommaIndex == LastIndexOf(cleaned0, ",")
          lastDotIndex == LastIndexOf(cleaned0, ".")
          cleaned ==
            IF lastCommaIndex > -1 /\ lastDotIndex > -1
            THEN IF lastCommaIndex > lastDotIndex
                 THEN ReplaceFirst(RemoveAll(cleaned0, "."), ",", ".")
                 ELSE RemoveAll(cleaned0, ",")
            ELSE IF lastCommaIndex > -1
                 THEN IF Len(LastPart(cleaned0)) # 3
                      THEN ReplaceAll(cleaned0, ",", ".")
                      ELSE RemoveAll(cleaned0, ",")
                 ELSE cleaned0
          f == ParseFloat(cleaned)
      IN  IF isNegative THEN Negate(f) ELSE f

\* A variant of parseNumberLegacy: the comma rule is the current copy's.
parseNumberLegacyByLastRun(str) == parseNumber(str)

\* The parseNumber of the earlier copy of the parser: when only commas are
\* present they are removed, whatever follows the last one.
parseNumberLegacy(str) ==
    IF str = <<>> THEN Zero
    ELSE IF ShapeAt(str, 1, <<"#", "#", "#", "#", "-", "#", "#", "-", "#", "#">>) THEN Zero
    ELSE IF ShapeAt(str, 1, <<"#", "#", "/", "#", "#", "/", "#", "#", "#", "#">>) THEN Zero
    ELSE
      LET stripped == Keep(str, FeeClass)
          isNegative == Len(stripped) > 0 /\ stripped[1] = "-"
          cleaned0 == IF isNegative THEN Tail(stripped) ELSE stripped
          lastCommaIndex == LastIndexOf(cleaned0, ",")
          lastDotIndex == LastIndexOf(cleaned0, ".")
          cleaned ==
            IF lastCommaIndex > -1 /\ lastDotIndex > -1
            THEN IF lastCommaIndex > lastDotIndex
                 THEN ReplaceFirst(RemoveAll(cleaned0, "."), ",", ".")
                 ELSE RemoveAll(cleaned0, ",")
            ELSE IF lastCommaIndex > -1
                 THEN RemoveAll(cleaned0, ",")
                 ELSE cleaned0
          f == ParseFloat(cleaned)
      IN  IF isNegative THEN Negate(f) ELSE f

-----------------------------------------------------------------------------
(* JavaScript values and objects                                           *)

Undefined == [t |-> "undefined", n |-> Zero, s |-> <<>>]
Str(s) == [t |-> "string", n |-> Zero, s |-> s]
Num(x) == [t |-> "number", n |-> x, s |-> <<>>]

\* ToBoolean: 0, NaN, the empty string and undefined are falsy.
Truthy(v) ==
    CASE v.t = "number" -> ~v.n.nan /\ v.n.mant # 0
      [] v.t = "string" -> v.s # <<>>
      [] OTHER -> FALSE

\* null, as against an object (a function from its own keys to values).
Null == [null |-> TRUE]

\* obj.k: undefined when k is no key of obj.
Get(obj, k) == IF k \in DOMAIN obj THEN obj[k] ELSE Undefined

\* obj.k = v
Put(obj, k, v) == [j \in DOMAIN obj \cup {k} |-> IF j = k THEN v ELSE obj[j]]

\* { ...a, ...b }: the own keys of both, b's value where both have the key.
Spread(a, b) == [j \in DOMAIN a \cup DOMAIN b |-> IF j \in DOMAIN b THEN b[j] ELSE a[j]]

-----------------------------------------------------------------------------
(* Regular expressions                                                     *)
(* A pattern is a sequence of elements, matched left to right from a       *)
(* position.  Every quantified element of the source's patterns is         *)
(* followed by an element that cannot start with a character of its class, *)
(* so the greedy match is the only match and no backtracking is needed.    *)

Lit(s)  == [k |-> "lit", s |-> s, c |-> {}, ci |-> TRUE]     \* a literal, /i
LitCS(s) == [k |-> "lit", s |-> s, c |-> {}, ci |-> FALSE]   \* a literal, case-sensitive
AnyLit(S) == [k |-> "alt", s |-> <<>>, c |-> S, ci |-> TRUE] \* (?:A|B), literals of S
Gap     == [k |-> "gap", s |-> <<>>, c |-> {}, ci |-> TRUE]  \* \s*\n\s*
Ws0     == [k |-> "ws0", s |-> <<>>, c |-> {}, ci |-> TRUE]  \* \s*
Ws1     == [k |-> "ws1", s |-> <<>>, c |-> {}, ci |-> TRUE]  \* \s+
Plus(C) == [k |-> "plus", s |-> <<>>, c |-> C, ci |-> TRUE]  \* [C]+
Star(C) == [k |-> "star", s |-> <<>>, c |-> C, ci |-> TRUE]  \* [C]*
D12     == [k |-> "d12", s |-> <<>>, c |-> {}, ci |-> TRUE]  \* \d{1,2}
Shape(s) == [k |-> "shape", s |-> s, c |-> {}, ci |-> TRUE]  \* fixed-width \d, \s, literals
Open    == [k |-> "(", s |-> <<>>, c |-> {}, ci |-> TRUE]    \* start of a capture group
Close   == [k |-> ")", s |-> <<>>, c |-> {}, ci |-> TRUE]    \* end of a capture group
\* \s*(SA|CH)? with the group captured (cap) or not: an absent group captures <<>>.
Meridiem(cap) == [k |-> "mer", s |-> <<>>, c |-> {}, ci |-> cap]
NotNlRest == [k |-> "rest", s |-> <<>>, c |-> {}, ci |-> TRUE] \* [^\n]*\n

NoMatch == [ok |-> FALSE, caps |-> <<>>, end |-> 0]

Newline == "\n"

RECURSIVE MatchFrom(_, _, _, _, _, _)
MatchFrom(t, p, pat, i, open, caps) ==
    IF i > Len(pat) THEN [ok |-> TRUE, caps |-> caps, end |-> p]
    ELSE
      LET e == pat[i]
          go(q) == MatchFrom(t, q, pat, i + 1, open, caps)
          n == Run(t, p, Space)
      IN  CASE e.k = "lit" ->
                 IF LitAt(t, p, e.s, e.ci) THEN go(p + Len(e.s)) ELSE NoMatch
            [] e.k = "alt" ->
                 LET ok == {l \in e.c : LitAt(t, p, l, TRUE)
                                        /\ MatchFrom(t, p + Len(l), pat, i + 1, open, caps).ok}
                 IN  IF ok = {} THEN NoMatch
                     ELSE go(p + Len(CHOOSE l \in ok : \A m \in ok : Len(m) <= Len(l)))
            [] e.k = "gap" ->
                 IF \E j \in p..(p + n - 1) : t[j] = Newline THEN go(p + n) ELSE NoMatch
            [] e.k = "ws0" -> go(p + n)
            [] e.k = "ws1" -> IF n >= 1 THEN go(p + n) ELSE NoMatch
            [] e.k = "plus" ->
                 IF Run(t, p, e.c) >= 1 THEN go(p + Run(t, p, e.c)) ELSE NoMatch
            [] e.k = "star" -> go(p + Run(t, p, e.c))
            [] e.k = "d12" ->
                 IF Run(t, p, Digits) >= 2 THEN go(p + 2)
                 ELSE IF Run(t, p, Digits) = 1 THEN go(p + 1) ELSE NoMatch
            [] e.k = "shape" ->
                 IF ShapeAt(t, p, e.s) THEN go(p + Len(e.s)) ELSE NoMatch
            [] e.k = "rest" ->
                 LET m == Run(t, p, {c \in {t[j] : j \in 1..Len(t)} : c # Newline})
                 IN  IF p + m <= Len(t) THEN go(p + m + 1) ELSE NoMatch
            [] e.k = "mer" ->
                 LET q == p + n
                     has == LitAt(t, q, <<"S", "A">>, TRUE) \/ LitAt(t, q, <<"C", "H">>, TRUE)
                     m == IF has THEN SubSeq(t, q, q + 1) ELSE <<>>
                     stop == IF has THEN q + 2 ELSE q
                 IN  MatchFrom(t, stop, pat, i + 1, open,
                               IF e.ci THEN Append(caps, m) ELSE caps)
            [] e.k = "(" -> MatchFrom(t, p, pat, i + 1, p, caps)
            [] e.k = ")" ->
                 MatchFrom(t, p, pat, i + 1, 0, Append(caps, SubSeq(t, open, p - 1)))

\* The match found by scanning from position from on: at the leftmost position
\* where the pattern matches (String.prototype.match without the g flag).
FindFrom(t, pat, from) ==
    LET ps == {p \in from..(Len(t) + 1) : MatchFrom(t, p, pat, 1, 0, <<>>).ok}
    IN  IF ps = {} THEN NoMatch ELSE MatchFrom(t, Min(ps), pat, 1, 0, <<>>)

Find(t, pat) == FindFrom(t, pat, 1)

\* The first capture groups of all successive matches (matchAll with the g
\* flag; every such pattern of the source consumes at least one character).
RECURSIVE FindAll(_, _, _)
FindAll(t, pat, from) ==
    LET m == FindFrom(t, pat, from)
    IN  IF ~m.ok THEN <<>> ELSE <<m.caps[1]>> \o FindAll(t, pat, m.end)

\* /^.../ : a match at the start of the text only.
FindAtStart(t, pat) == MatchFrom(t, 1, pat, 1, 0, <<>>)

-----------------------------------------------------------------------------
(* DateNormalizer                                                          *)

RECURSIVE NatToString(_)
NatToString(n) ==
    LET d == CHOOSE c \in Digits : DigitVal[c] = n % 10
    IN  IF n < 10 THEN <<d>> ELSE NatToString(n \div 10) \o <<d>>

\* A variant of PadStart2: no padding.
PadStart2None(s) == s

\* s.padStart(2, '0')
PadStart2(s) == IF Len(s) < 2 THEN [j \in 1..(2 - Len(s)) |-> "0"] \o s ELSE s

\* A variant of CustomDatePattern: dashes are taken for slashes as well.
CustomDatePatternDashes ==
    <<Open, D12, Close, AnyLit({<<"/">>, <<"-">>}), Open, D12, Close, AnyLit({<<"/">>, <<"-">>}),
      Open, Shape(<<"#", "#", "#", "#">>), Close, Ws1,
      Open, D12, Close, Lit(<<":">>), Open, Shape(<<"#", "#">>), Close, Lit(<<":">>),
      Open, Shape(<<"#", "#">>), Close, Meridiem(TRUE)>>

CustomDatePattern ==
    <<Open, D12, Close, Lit(<<"/">>), Open, D12, Close, Lit(<<"/">>),
      Open, Shape(<<"#", "#", "#", "#">>), Close, Ws1,
      Open, D12, Close, Lit(<<":">>), Open, Shape(<<"#", "#">>), Close, Lit(<<":">>),
      Open, Shape(<<"#", "#">>), Close, Meridiem(TRUE)>>

parseCustomDate(dateStr) ==
    With(Find(dateStr, CustomDatePattern), LAMBDA match :
        IF match.ok
        THEN LET day == match.caps[1]
                 month == match.caps[2]
                 year == match.caps[3]
                 hour == match.caps[4]
                 minute == match.caps[5]
                 second == match.caps[6]
                 meridiem == [j \in 1..Len(match.caps[7]) |-> ToUpper(match.caps[7][j])]
                 h0 == DigitsVal(hour)
                 h == IF meridiem = <<"C", "H">> /\ h0 < 12 THEN h0 + 12
                      ELSE IF meridiem = <<"S", "A">> /\ h0 = 12 THEN 0
                      ELSE h0
             IN  Str(year \o <<"-">> \o PadStart2(month) \o <<"-">> \o PadStart2(day)
                     \o <<"T">> \o PadStart2(NatToString(h)) \o <<":">> \o minute
                     \o <<":">> \o second)
        ELSE Undefined)

-----------------------------------------------------------------------------
(* The captions the detectors look for                                     *)

GiaMo == <<"G", "i", "a'", " ", "M", "o+?">>
GiaDong == <<"G", "i", "a'", " ", "DD", "o'", "n", "g">>
CoinCaption == <<"C", "o", "i", "n">>
SLCaption == <<"S", "L">>
NgayCaption == <<"N", "g", "a!", "y">>
PhiCaption == <<"P", "h", "i'">>
PnLCaption == <<"P", "n", "L">>
DonBay == <<"DD", "o!", "n", " ", "B", "a^?", "y">>
OpenTimeCaption == <<"O", "p", "e", "n", " ", "T", "i", "m", "e">>
OpeningAveragePrice == <<"O", "p", "e", "n", "i", "n", "g", " ", "A", "v", "e", "r", "a", "g", "e", " ", "P", "r", "i", "c", "e">>
CloseTimeCaption == <<"C", "l", "o", "s", "e", " ", "T", "i", "m", "e">>
ClosingAveragePrice == <<"C", "l", "o", "s", "i", "n", "g", " ", "A", "v", "e", "r", "a", "g", "e", " ", "P", "r", "i", "c", "e">>
PositionSize == <<"P", "o", "s", "i", "t", "i", "o", "n", " ", "S", "i", "z", "e">>
FundingFee == <<"F", "u", "n", "d", "i", "n", "g", " ", "F", "e", "e">>
FeesCaption == <<"F", "e", "e", "s">>
FeeCaption == <<"F", "e", "e">>
PositionPnL == <<"P", "o", "s", "i", "t", "i", "o", "n", " ", "P", "n", "L">>
RealizedPnL == <<"R", "e", "a", "l", "i", "z", "e", "d", " ", "P", "n", "L">>
TimeOpened == <<"T", "i", "m", "e", " ", "O", "p", "e", "n", "e", "d">>
EntryPrice == <<"E", "n", "t", "r", "y", " ", "P", "r", "i", "c", "e">>
TimeClosed == <<"T", "i", "m", "e", " ", "C", "l", "o", "s", "e", "d">>
ClosePrice == <<"C", "l", "o", "s", "e", " ", "P", "r", "i", "c", "e">>
MaxHeld == <<"M", "a", "x", " ", "h", "e", "l", "d">>
ClosedQty == <<"C", "l", "o", "s", "e", "d", " ", "Q", "t", "y">>
ClosedQtyDot == <<"C", "l", "o", "s", "e", "d", " ", "Q", "t", "y", ".">>
ClosingPnL == <<"C", "l", "o", "s", "i", "n", "g", " ", "P", "n", "L">>
ExitPrice == <<"E", "x", "i", "t", " ", "P", "r", "i", "c", "e">>
VolumeCaption == <<"V", "o", "l", "u", "m", "e">>
USDT == <<"U", "S", "D", "T">>
ETH == <<"E", "T", "H">>

\* \d{4}-\d{2}-\d{2}\s\d{2}:\d{2}:\d{2}
IsoShape == <<"#", "#", "#", "#", "-", "#", "#", "-", "#", "#", "_",
              "#", "#", ":", "#", "#", ":", "#", "#">>
DateShape == <<"#", "#", "#", "#", "-", "#", "#", "-", "#", "#">>     \* \d{4}-\d{2}-\d{2}
TimeShape == <<"#", "#", ":", "#", "#", ":", "#", "#">>               \* \d{2}:\d{2}:\d{2}
VNDateShape == <<"#", "#", "/", "#", "#", "/", "#", "#", "#", "#">>   \* \d{2}\/\d{2}\/\d{4}

\* /Caption\s*\n\s*([class]+)/i
CaptionValue(caption, class) == <<Lit(caption), Gap, Open, Plus(class), Close>>

\* The first capture of a match, the empty string when there is none.
Cap(m, j) == IF m.ok THEN m.caps[j] ELSE <<>>

\* if (m) trade.k = v, as a pending assignment
SetIf(m, k, v) == [ok |-> m.ok, k |-> k, v |-> v]

\* The pending assignments of sets, made in order on trade.
RECURSIVE Assign(_, _)
Assign(trade, sets) ==
    IF sets = <<>> THEN trade
    ELSE Assign(IF sets[1].ok THEN Put(trade, sets[1].k, sets[1].v) ELSE trade, Tail(sets))

\* str.replace(' ', 'T')
SpaceToT(s) == ReplaceFirst(s, " ", "T")

IntNum(n) == Num(MkNum(FALSE, n, 0))

DefaultLeverage == 100

\* const trade: Partial<Trade> = { leverage: 100 }
NewTrade == [leverage |-> IntNum(DefaultLeverage)]

\* /^([A-Z]+)USDT/i: the longest run of letters at the start of the text that
\* leaves USDT after it.
CoinPrefixMatch(t) ==
    LET n == Run(t, 1, Alpha)
        ks == {k \in 1..n : LitAt(t, k + 1, USDT, TRUE)}
    IN  IF ks = {} THEN NoMatch
        ELSE [ok |-> TRUE, caps |-> <<SubSeq(t, 1, Max(ks))>>, end |-> Max(ks) + 5]

\* /(\d+)X/ (ci: with the i flag)
LeveragePattern(ci) ==
    <<Open, Plus(Digits), Close, IF ci THEN Lit(<<"X">>) ELSE LitCS(<<"X">>)>>

-----------------------------------------------------------------------------
(* The layout detectors                                                    *)

parseFormatVN(t) ==
    IF ~Includes(t, GiaMo) /\ ~Includes(t, GiaDong) THEN Null
    ELSE
      With([coinMatch |-> Find(t, CaptionValue(CoinCaption, Alpha)),
            qtyMatch |-> Find(t, CaptionValue(SLCaption, NumClass)),
            openPriceMatch |-> Find(t, CaptionValue(GiaMo, NumClass)),
            closePriceMatch |-> Find(t, CaptionValue(GiaDong, NumClass)),
            dateMatches |-> FindAll(t, <<Lit(NgayCaption), Gap, Open, Shape(VNDateShape), Ws1,
                                         Shape(TimeShape), Meridiem(FALSE), Close>>, 1),
            feeMatch |-> Find(t, CaptionValue(PhiCaption, FeeClass)),
            pnlMatch |-> Find(t, CaptionValue(PnLCaption, PnlClass)),
            levMatch |-> Find(t, CaptionValue(DonBay, Digits))],
        LAMBDA m :
          LET date(j) == [ok |-> Len(m.dateMatches) >= j,
                          caps |-> IF Len(m.dateMatches) >= j
                                   THEN <<m.dateMatches[j]>> ELSE <<>>]
          IN  Assign(NewTrade,
                <<SetIf(m.coinMatch, "coin", Str(Cap(m.coinMatch, 1))),
                  SetIf(m.qtyMatch, "quantity", Num(parseNumber(Cap(m.qtyMatch, 1)))),
                  SetIf(m.openPriceMatch, "openPrice",
                        Num(parseNumber(Cap(m.openPriceMatch, 1)))),
                  SetIf(m.closePriceMatch, "closePrice",
                        Num(parseNumber(Cap(m.closePriceMatch, 1)))),
                  SetIf(date(1), "openTime", parseCustomDate(Cap(date(1), 1))),
                  SetIf(date(2), "closeTime", parseCustomDate(Cap(date(2), 1))),
                  SetIf(m.feeMatch, "fee", Num(MathAbs(parseNumber(Cap(m.feeMatch, 1))))),
                  SetIf(m.pnlMatch, "pnl", Num(parseNumber(Cap(m.pnlMatch, 1)))),
                  SetIf(m.levMatch, "leverage", Num(ParseInt(Cap(m.levMatch, 1))))>>))

\* Sub-format 1 of parseFormatAivoraGrid: stacked headers.
GridStacked(t) ==
    With([headerStackMatch |->
            Find(t, <<Lit(OpenTimeCaption), Gap, Lit(OpeningAveragePrice), Gap,
                      Lit(CloseTimeCaption), Gap, Open, Shape(IsoShape), Close, Gap,
                      Open, Plus(NumClass), Close, Gap, Open, Shape(IsoShape), Close>>),
          closeStackMatch |->
            Find(t, <<Lit(ClosingAveragePrice), Gap, Lit(PositionSize), Gap, Lit(FundingFee),
                      Gap, Open, Plus(NumClass), Close, Gap, Open, Plus(NumClass), Close,
                      Ws0, Open, Plus(Alpha), Close>>),
          feePnlMatch |->
            Find(t, <<Lit(FeesCaption), Gap, Lit(PositionPnL), Gap, Lit(RealizedPnL), Gap,
                      Open, Plus(FeeClass), Close, NotNlRest, Ws0,
                      Open, Plus(PnlClass), Close>>)],
      LAMBDA m :
        Assign(NewTrade,
          <<SetIf(m.headerStackMatch, "openTime", Str(SpaceToT(Cap(m.headerStackMatch, 1)))),
            SetIf(m.headerStackMatch, "openPrice",
                  Num(parseNumber(Cap(m.headerStackMatch, 2)))),
            SetIf(m.headerStackMatch, "closeTime", Str(SpaceToT(Cap(m.headerStackMatch, 3)))),
            SetIf(m.closeStackMatch, "closePrice", Num(parseNumber(Cap(m.closeStackMatch, 1)))),
            SetIf(m.closeStackMatch, "quantity", Num(parseNumber(Cap(m.closeStackMatch, 2)))),
            SetIf(m.closeStackMatch, "coin", Str(Cap(m.closeStackMatch, 3))),
            SetIf(m.feePnlMatch, "fee", Num(MathAbs(parseNumber(Cap(m.feePnlMatch, 1))))),
            SetIf(m.feePnlMatch, "pnl", Num(parseNumber(Cap(m.feePnlMatch, 2))))>>))

\* Sub-format 2 of parseFormatAivoraGrid: sequential blocks.
GridSequential(t) ==
    With([openBlock |->
            Find(t, <<Lit(OpenTimeCaption), Gap, Lit(OpeningAveragePrice), Gap,
                      Open, Shape(IsoShape), Close, Gap, Open, Plus(NumClass), Close>>),
          closeBlock |->
            Find(t, <<Lit(CloseTimeCaption), Gap, Lit(ClosingAveragePrice), Gap,
                      Open, Shape(IsoShape), Close, Gap, Open, Plus(NumClass), Close>>),
          qtyBlock |->
            Find(t, <<Lit(PositionSize), Gap, Lit(FundingFee), Gap,
                      Open, Plus(NumClass), Close, Ws0, Open, Plus(Alpha), Close>>),
          feePnlBlock |->
            Find(t, <<Lit(FeesCaption), Gap, Lit(PositionPnL), Gap,
                      Open, Plus(FeeClass), Close, NotNlRest, Ws0,
                      Open, Plus(PnlClass), Close>>)],
      LAMBDA m :
        Assign(NewTrade,
          <<SetIf(m.openBlock, "openTime", Str(SpaceToT(Cap(m.openBlock, 1)))),
            SetIf(m.openBlock, "openPrice", Num(parseNumber(Cap(m.openBlock, 2)))),
            SetIf(m.closeBlock, "closeTime", Str(SpaceToT(Cap(m.closeBlock, 1)))),
            SetIf(m.closeBlock, "closePrice", Num(parseNumber(Cap(m.closeBlock, 2)))),
            SetIf(m.qtyBlock, "quantity", Num(parseNumber(Cap(m.qtyBlock, 1)))),
            SetIf(m.qtyBlock, "coin", Str(Cap(m.qtyBlock, 2))),
            SetIf(m.feePnlBlock, "fee", Num(MathAbs(parseNumber(Cap(m.feePnlBlock, 1))))),
            SetIf(m.feePnlBlock, "pnl", Num(parseNumber(Cap(m.feePnlBlock, 2))))>>))

parseFormatAivoraGrid(t) ==
    IF ~Includes(t, OpenTimeCaption) THEN Null
    ELSE
      With([isFormatStacked |->
              Find(t, <<Lit(OpenTimeCaption), Gap, Lit(OpeningAveragePrice), Gap,
                        Lit(CloseTimeCaption)>>).ok,
            \* Common cleanup
            coinMatch |-> CoinPrefixMatch(t),
            levMatch |-> Find(t, LeveragePattern(FALSE))],
        LAMBDA m :
          With(IF m.isFormatStacked THEN GridStacked(t) ELSE GridSequential(t),
            LAMBDA trade :
              Assign(trade,
                <<[ok |-> ~Truthy(Get(trade, "coin")) /\ m.coinMatch.ok, k |-> "coin",
                   v |-> Str(Cap(m.coinMatch, 1))],
                  SetIf(m.levMatch, "leverage", Num(ParseInt(Cap(m.levMatch, 1))))>>)))

parseFormatAivoraEn(t) ==
    IF ~Includes(t, OpeningAveragePrice) \/ Includes(t, TimeOpened) THEN Null
    ELSE
      With([stdOpen |-> Find(t, CaptionValue(OpeningAveragePrice, NumClass)),
            dateMatch |-> Find(t, <<Open, Shape(DateShape), Ws1, Shape(TimeShape), Close>>),
            stdClose |-> Find(t, CaptionValue(ClosingAveragePrice, NumClass)),
            volMatch |-> Find(t, <<AnyLit({VolumeCaption, PositionSize}), Ws0,
                                   Open, Plus(NumClass), Close, Ws1, Open, Plus(Alpha), Close>>),
            feeStd |-> Find(t, CaptionValue(FeesCaption, FeeClass)),
            pnlStd |-> Find(t, CaptionValue(PositionPnL, PnlClass)),
            lev |-> Find(t, LeveragePattern(TRUE))],
        LAMBDA m :
          Assign(NewTrade,
            <<SetIf(m.stdOpen, "openPrice", Num(parseNumber(Cap(m.stdOpen, 1)))),
              SetIf(m.dateMatch, "openTime", Str(SpaceToT(Cap(m.dateMatch, 1)))),
              SetIf(m.stdClose, "closePrice", Num(parseNumber(Cap(m.stdClose, 1)))),
              SetIf(m.volMatch, "quantity", Num(parseNumber(Cap(m.volMatch, 1)))),
              SetIf(m.volMatch, "coin", Str(Cap(m.volMatch, 2))),
              SetIf(m.feeStd, "fee", Num(MathAbs(parseNumber(Cap(m.feeStd, 1))))),
              SetIf(m.pnlStd, "pnl", Num(parseNumber(Cap(m.pnlStd, 1)))),
              SetIf(m.lev, "leverage", Num(ParseInt(Cap(m.lev, 1))))>>))

QtyCaptions == {MaxHeld, ClosedQtyDot, ClosedQty}    \* (?:Max held|Closed Qty\.?)

\* The fields parseFormatBitunixMobile sets before it looks for a symbol
\* under the quantity.
MobileBasic(t) ==
    With([coinMatch |-> CoinPrefixMatch(t),
          levMatch |-> Find(t, LeveragePattern(FALSE)),
          openTimeMatch |-> Find(t, <<Lit(TimeOpened), Gap, Open, Shape(IsoShape), Close>>),
          entryMatch |-> Find(t, CaptionValue(EntryPrice, NumClass)),
          closeTimeMatch |-> Find(t, <<Lit(TimeClosed), Gap, Open, Shape(IsoShape), Close>>),
          closePriceMatch |-> Find(t, CaptionValue(ClosePrice, NumClass)),
          qtyMatch |-> Find(t, <<AnyLit(QtyCaptions), Gap, Open, Plus(NumClass), Close>>)],
      LAMBDA m :
        Assign(NewTrade,
          <<SetIf(m.coinMatch, "coin", Str(Cap(m.coinMatch, 1))),
            SetIf(m.levMatch, "leverage", Num(ParseInt(Cap(m.levMatch, 1)))),
            SetIf(m.openTimeMatch, "openTime", Str(SpaceToT(Cap(m.openTimeMatch, 1)))),
            SetIf(m.entryMatch, "openPrice", Num(parseNumber(Cap(m.entryMatch, 1)))),
            SetIf(m.closeTimeMatch, "closeTime", Str(SpaceToT(Cap(m.closeTimeMatch, 1)))),
            SetIf(m.closePriceMatch, "closePrice", Num(parseNumber(Cap(m.closePriceMatch, 1)))),
            SetIf(m.qtyMatch, "quantity", Num(parseNumber(Cap(m.qtyMatch, 1))))>>))

\* A variant of parseFormatBitunixMobile: the guard asks for the quantity
\* caption Max held instead of Time Opened.
parseFormatBitunixMobileByQty(t) ==
    IF ~Includes(t, MaxHeld) THEN Null ELSE MobileBasic(t)

\* A variant of PnlSource: the Position PnL match is taken when there is one.
PnlSourcePositionFirst(closingPnlMatch, posPnlMatch) ==
    IF posPnlMatch.ok THEN posPnlMatch ELSE closingPnlMatch

\* if (closingPnlMatch) ... else { posPnlMatch ... }: the match whose value
\* becomes the pnl.
PnlSource(closingPnlMatch, posPnlMatch) ==
    IF closingPnlMatch.ok THEN closingPnlMatch ELSE posPnlMatch

parseFormatBitunixMobile(t) ==
    IF ~Includes(t, TimeOpened) THEN Null
    ELSE
      With([coinUnderQty |-> Find(t, <<AnyLit(QtyCaptions), Gap, Plus(NumClass), Gap,
                                       Open, Plus(Alpha), Close>>),
            closingPnlMatch |-> Find(t, CaptionValue(ClosingPnL, PnlClass)),
            posPnlMatch |-> Find(t, CaptionValue(PositionPnL, PnlClass)),
            feeMatch |-> Find(t, <<AnyLit({FeesCaption, FeeCaption}), Gap,
                                   Open, Plus(FeeClass), Close>>),
            trade |-> MobileBasic(t)],
        LAMBDA m :
          LET pnlFrom == PnlSource(m.closingPnlMatch, m.posPnlMatch)
          IN  Assign(m.trade,
                <<[ok |-> ~Truthy(Get(m.trade, "coin")) /\ m.coinUnderQty.ok, k |-> "coin",
                   v |-> Str(Cap(m.coinUnderQty, 1))],
                  SetIf(pnlFrom, "pnl", Num(parseNumber(Cap(pnlFrom, 1)))),
                  SetIf(m.feeMatch, "fee", Num(MathAbs(parseNumber(Cap(m.feeMatch, 1)))))>>))

parseFormatBitunixWeb(t) ==
    IF ~Includes(t, EntryPrice) \/ ~Includes(t, TimeOpened) THEN Null
    ELSE
      With([entryMatch |-> Find(t, CaptionValue(EntryPrice, NumClass)),
            exitMatch |-> Find(t, CaptionValue(ExitPrice, NumClass)),
            openTimeMatch |-> Find(t, <<Lit(OpenTimeCaption), Gap, Open, Shape(IsoShape),
                                        Close>>),
            pnlMatch |-> Find(t, CaptionValue(PositionPnL, PnlClass))],
        LAMBDA m :
          Assign(NewTrade,
            <<SetIf(m.entryMatch, "openPrice", Num(parseNumber(Cap(m.entryMatch, 1)))),
              SetIf(m.exitMatch, "closePrice", Num(parseNumber(Cap(m.exitMatch, 1)))),
              SetIf(m.openTimeMatch, "openTime", Str(SpaceToT(Cap(m.openTimeMatch, 1)))),
              SetIf(m.pnlMatch, "pnl", Num(parseNumber(Cap(m.pnlMatch, 1))))>>))

\* text.split(/\t/)
RECURSIVE Split(_, _)
Split(s, sep) ==
    LET ps == {j \in 1..Len(s) : s[j] = sep}
    IN  IF ps = {} THEN <<s>>
        ELSE <<SubSeq(s, 1, Min(ps) - 1)>> \o Split(SubSeq(s, Min(ps) + 1, Len(s)), sep)

TabularColumns == 8

\* A variant of parseFormatTabular: the two prices change places and the fee
\* keeps its sign.
parseFormatTabularShifted(t) ==
    With(Split(t, "\t"), LAMBDA parts :
        IF Len(parts) < TabularColumns THEN Null
        ELSE IF ~(Len(Trim(parts[1])) > 0 /\ Trim(parts[1])[1] \in Digits) THEN Null
        ELSE [leverage |-> IntNum(DefaultLeverage),
              openPrice |-> Num(parseNumber(parts[2])),
              closePrice |-> Num(parseNumber(parts[1])),
              openTime |-> parseCustomDate(parts[3]),
              closeTime |-> parseCustomDate(parts[4]),
              quantity |-> Num(parseNumber(parts[5])),
              coin |-> Str(Trim(parts[6])),
              fee |-> Num(parseNumber(parts[7])),
              pnl |-> Num(parseNumber(parts[8]))])

parseFormatTabular(t) ==
    With(Split(t, "\t"), LAMBDA parts :
        IF Len(parts) < TabularColumns THEN Null
        ELSE IF ~(Len(Trim(parts[1])) > 0 /\ Trim(parts[1])[1] \in Digits) THEN Null
        ELSE [leverage |-> IntNum(DefaultLeverage),
              openPrice |-> Num(parseNumber(parts[1])),
              closePrice |-> Num(parseNumber(parts[2])),
              openTime |-> parseCustomDate(parts[3]),
              closeTime |-> parseCustomDate(parts[4]),
              quantity |-> Num(parseNumber(parts[5])),
              coin |-> Str(Trim(parts[6])),
              fee |-> Num(MathAbs(parseNumber(parts[7]))),
              pnl |-> Num(parseNumber(parts[8]))])

-----------------------------------------------------------------------------
(* The dispatcher                                                          *)

\* new Date().toISOString() when the clock reads c.
ToISOString(c) ==
    <<"2", "0", "2", "6", "-", "0", "1", "-", "0", "1", "T", "0", "0", ":", "0", "0", ":">>
    \o PadStart2(NatToString(c)) \o <<".", "0", "0", "0", "Z">>

\* The results of the detectors, in the order of the || chain.
DetectorResults(t) ==
    <<parseFormatTabular(t), parseFormatVN(t), parseFormatAivoraGrid(t),
      parseFormatBitunixMobile(t), parseFormatAivoraEn(t), parseFormatBitunixWeb(t)>>

\* The keys of the default template.
RequiredKeys == {"uid", "leverage", "openPrice", "openTime", "quantity", "coin", "fee", "pnl"}

\* A variant of FirstNonNull: the chain keeps the last detector that answers.
LastNonNull(rs) ==
    LET ks == {k \in 1..Len(rs) : rs[k] # Null}
    IN  IF ks = {} THEN Null ELSE rs[Max(ks)]

\* a || b || ... : the first operand that is not null (an object is truthy).
FirstNonNull(rs) ==
    LET ks == {k \in 1..Len(rs) : rs[k] # Null}
    IN  IF ks = {} THEN Null ELSE rs[Min(ks)]

DetectorChain(t) == FirstNonNull(DetectorResults(t))

\* A variant of Gate: openPrice is only required to be set (0 and NaN pass).
GatePriceSet(sp) ==
    /\ sp # Null
    /\ Get(sp, "openPrice").t = "number"
    /\ Truthy(Get(sp, "quantity")) \/ Truthy(Get(sp, "coin"))

\* smartParse && smartParse.openPrice && (smartParse.quantity || smartParse.coin)
Gate(sp) ==
    /\ sp # Null
    /\ Truthy(Get(sp, "openPrice"))
    /\ Truthy(Get(sp, "quantity")) \/ Truthy(Get(sp, "coin"))

\* A variant of Defaults: the identifier is stamped with the time of the call.
DefaultsStamped(c) ==
    [uid |-> Str(ToISOString(c)), leverage |-> IntNum(DefaultLeverage), openPrice |-> Num(Zero),
     openTime |-> Str(ToISOString(c)), quantity |-> Num(Zero), coin |-> Str(ETH),
     fee |-> Num(Zero), pnl |-> Num(Zero)]

\* The default template, built when the clock reads c.
Defaults(c) ==
    [uid |-> Str(<<>>), leverage |-> IntNum(DefaultLeverage), openPrice |-> Num(Zero),
     openTime |-> Str(ToISOString(c)), quantity |-> Num(Zero), coin |-> Str(ETH),
     fee |-> Num(Zero), pnl |-> Num(Zero)]

\* { uid: '', ..., pnl: 0, ...smartParse }
\* A variant of MergeDefaults: the defaults are spread last.
MergeDefaultsOver(c, sp) == Spread(sp, Defaults(c))

MergeDefaults(c, sp) == Spread(Defaults(c), sp)

\* A variant of FallbackCalls: the collaborator is called a second time.
FallbackCallsRetry(t) == <<t, t>>

\* The calls made to the collaborator when the gate is not passed.
FallbackCalls(t) == <<t>>

\* What a rejected collaborator promise carries instead of a record.
Rejected == [rejected |-> TRUE]

\* A variant of Passthrough: the reply is merged over the default template.
PassthroughMerged(reply) == Spread(Defaults(0), reply)

\* return parseWithGemini(text): the promise resolves with the record the
\* collaborator resolved with...
Passthrough(reply) == reply

\* A variant of Settle: a collaborator failure is swallowed.
SettleSwallowed(reply) == "done"

\* ... and rejects when the collaborator rejects (no try/catch around the call).
Settle(reply) == IF reply = Rejected THEN "failed" ELSE "done"

-----------------------------------------------------------------------------
(* Inputs                                                                  *)

MaxItems == 3       \* caption/value items in a pasted text
MaxExtraCols == 1   \* columns of a tab-separated row beyond the eight expected
MaxClock == 1       \* readings of the wall clock
MaxNumLen == 3      \* length of a parseNumber argument

RECURSIVE JoinWith(_, _)
JoinWith(ss, sep) ==
    IF Len(ss) = 0 THEN <<>>
    ELSE IF Len(ss) = 1 THEN ss[1]
    ELSE ss[1] \o <<sep>> \o JoinWith(Tail(ss), sep)

ItemTimeOpened == <<"T", "i", "m", "e", " ", "O", "p", "e", "n", "e", "d">>
ItemEntryPrice == <<"E", "n", "t", "r", "y", " ", "P", "r", "i", "c", "e", "\n", "1", "0", "0">>
ItemEntryPriceBad == <<"E", "n", "t", "r", "y", " ", "P", "r", "i", "c", "e", "\n", ",">>
ItemOpenTime == <<"O", "p", "e", "n", " ", "T", "i", "m", "e">>
ItemGiaMo == <<"G", "i", "a'", " ", "M", "o+?", "\n", "2", ".", "8", "6", "0", ",", "9", "0">>
ItemSL == <<"S", "L", "\n", "1", "5", ",", "0", "0">>
ItemFeesDash == <<"F", "e", "e", "s", "\n", "-">>
ItemPhi == <<"P", "h", "i'", "\n", "-", "4", "2", ",", "6", "6">>
ItemOpeningPrice == <<"O", "p", "e", "n", "i", "n", "g", " ", "A", "v", "e", "r", "a", "g", "e", " ", "P", "r", "i", "c", "e", "\n", "1", "0", "0">>
ItemVolume == <<"V", "o", "l", "u", "m", "e", "\n", "5", " ", "E", "T", "H">>
ItemNote == <<"n", "o", "t", "e">>

Items == {ItemTimeOpened, ItemEntryPrice, ItemEntryPriceBad, ItemOpenTime, ItemGiaMo, ItemSL,
          ItemFeesDash, ItemPhi, ItemOpeningPrice, ItemVolume, ItemNote}

HeaderNone == <<>>
HeaderSymbol == <<"E", "T", "H", "U", "S", "D", "T", " ", "2", "0", "X">>
Headers == {HeaderNone, HeaderSymbol}

\* Sequences of at most n distinct items.
RECURSIVE ItemSeqs(_)
ItemSeqs(n) ==
    IF n = 0 THEN {<<>>}
    ELSE LET shorter == ItemSeqs(n - 1)
         IN  shorter \cup {Append(q, x) : q \in {r \in shorter : Len(r) = n - 1},
                                          x \in Items}

\* Pasted position-detail screens: an optional symbol header, then lines.
CaptionTexts ==
    {JoinWith((IF h = HeaderNone THEN <<>> ELSE <<h>>) \o q, Newline) :
        h \in Headers, q \in {r \in ItemSeqs(MaxItems) :
                                \A a, b \in 1..Len(r) : a # b => r[a] # r[b]}}

PriceFields == {<<"2", "8", "6", "0", ",", "9", "0">>, <<"0">>, <<"n", "/", "a">>}
DateFields == {<<"1", "/", "1", "2", "/", "2", "0", "2", "5", " ", "1", "0", ":", "1", "9", ":", "1", "6">>, <<"s", "o", "o", "n">>}
QtyFields == {<<"1", "5", ",", "0", "0">>, <<>>}
CoinFields == {<<" ", "E", "T", "H", " ">>, <<>>, <<"T", "i", "m", "e", " ", "O", "p", "e", "n", "e", "d">>}
FeeFields == {<<"4", "2", ",", "6", "6">>, <<"-">>, <<"-", "$", "1", ",", "5">>}
ClosePriceField == <<"2", "8", "2", "7", ",", "4", "5">>
CloseDateField == <<"1", "/", "1", "2", "/", "2", "0", "2", "5", " ", "1", "0", ":", "3", "9", ":", "1", "2">>
PnlField == <<"-", "5", "0", "1", ",", "7", "5">>

\* Spreadsheet rows: the eight columns, one column short, or with extra ones.
TabularTexts ==
    {JoinWith(SubSeq(<<p, ClosePriceField, d, CloseDateField, q, c, f, PnlField>>
                     \o [j \in 1..MaxExtraCols |-> ItemNote], 1, n), "\t") :
        p \in PriceFields, d \in DateFields, q \in QtyFields, c \in CoinFields,
        f \in FeeFields, n \in (TabularColumns - 1)..(TabularColumns + MaxExtraCols)}

Texts == CaptionTexts \cup TabularTexts

\* What the collaborator may resolve with: a record of its own making, which
\* the default template would change if it were merged over it.
AIRecord ==
    [coin |-> Str(<<"B", "T", "C">>), openPrice |-> IntNum(7), quantity |-> IntNum(1),
     pnl |-> Num(NaN)]
AIReplies == {AIRecord}

Runs == {1, 2}

-----------------------------------------------------------------------------
(* The components around the parser, at rest: App (the session and the     *)
(* user's data) and OrderForm with its AIPasteModal.                        *)

\* useLocalStorage<string | null>('currentUser', null): null
NoUser == ""

Users == {"a", "b"}

DefaultMonthlyVolumeTarget == 500000
DefaultStartingEquity == 100000

\* const userData: UserData = { hedgedPairs, monthlyVolumeTarget, startingEquity }
UserData(hp, mvt, se) ==
    [hedgedPairs |-> hp, monthlyVolumeTarget |-> mvt, startingEquity |-> se]

\* A hedged pair: its id, the user whose list it was made in, and whether
\* it went through handleSavePair.
Pair(id, owner, saved) == [id |-> id, owner |-> owner, saved |-> saved]

\* What the service holds for each user before the application starts: their
\* own figures, and for the first user one pair of their own.
StoredAtStart ==
    [u \in Users |->
        IF u = "a" THEN UserData(<<Pair(0, u, FALSE)>>, 600000, 110000)
                   ELSE UserData(<<>>, 700000, 120000)]

\* The useState initial values of App, before it is mounted.
AppIdle ==
    /\ currentUser = NoUser
    /\ hedgedPairs = <<>>
    /\ monthlyVolumeTarget = DefaultMonthlyVolumeTarget
    /\ startingEquity = DefaultStartingEquity
    /\ isLoading = TRUE
    /\ isModalOpen = FALSE
    /\ editingPair = Null
    /\ inflight = <<>>
    /\ server = StoredAtStart
    /\ saveCalls = {}

\* const emptyTrade: Trade = { uid: '', openPrice: 0, closePrice: undefined, ... }
emptyTrade ==
    [uid |-> Str(<<>>), openPrice |-> Num(Zero), closePrice |-> Undefined,
     openTime |-> Str(<<>>), closeTime |-> Undefined, quantity |-> Num(Zero),
     coin |-> Str(ETH), fee |-> Num(Zero), pnl |-> Num(Zero),
     leverage |-> IntNum(DefaultLeverage)]

\* const emptyPair: HedgedPair = { id: '', ..., tradeA: { ...emptyTrade }, tradeB: { ...emptyTrade } }
emptyPair == [id |-> <<>>, tradeA |-> emptyTrade, tradeB |-> emptyTrade]

TradeKeys == {"tradeA", "tradeB"}

\* useState<TradeKey | null>(null): null
NoTarget == ""

\* useState<string | null>(null): null
NoError == ""

NoAttempt == [run |-> 0, stage |-> "none"]

\* The useState initial values of AIPasteModal.
ModalFresh ==
    /\ modalText = <<>>
    /\ modalIsLoading = FALSE
    /\ modalError = NoError

\* The useState initial values of OrderForm, with the paste modal not shown.
FormIdle ==
    /\ formData = emptyPair
    /\ aiTarget = NoTarget
    /\ isAIPasteModalOpen = FALSE
    /\ ModalFresh
    /\ attempt = NoAttempt
    /\ completions = [i \in Runs |-> <<>>]

-----------------------------------------------------------------------------
(* parseTradeTextSmart as a state machine: two invocations on the same     *)
(* text, the second after the first has settled.                           *)

NoNumber == [done |-> FALSE, arg |-> <<>>, v |-> Zero]

Init ==
    /\ \E t \in Texts : text = [i \in Runs |-> t]
    /\ pc = [i \in Runs |-> "idle"]
    /\ detected = [i \in Runs |-> <<>>]
    /\ smartParse = [i \in Runs |-> Null]
    /\ result = [i \in Runs |-> Null]
    /\ path = [i \in Runs |-> "none"]
    /\ aiCalls = [i \in Runs |-> <<>>]
    /\ aiReply = [i \in Runs |-> Null]
    /\ now = 0
    /\ numIn = <<>>
    /\ numOut = NoNumber
    /\ AppIdle
    /\ FormIdle

\* The synchronous part of an invocation: the detector chain, the gate, and
\* either the merged record or the call to the collaborator.
CallOn(i, t) ==
    /\ pc[i] = "idle"
    /\ text' = [text EXCEPT ![i] = t]
    /\ \E rs \in {DetectorResults(t)} : \E sp \in {FirstNonNull(rs)} :
           /\ detected' = [detected EXCEPT ![i] = rs]
           /\ smartParse' = [smartParse EXCEPT ![i] = sp]
           /\ IF Gate(sp)
              THEN \* new Date() reads the clock, which has not gone back
                   /\ \E c \in now..MaxClock :
                         /\ now' = c
                         /\ result' = [result EXCEPT ![i] = MergeDefaults(c, sp)]
                   /\ path' = [path EXCEPT ![i] = "heuristic"]
                   /\ pc' = [pc EXCEPT ![i] = "done"]
                   /\ UNCHANGED aiCalls
              ELSE /\ aiCalls' = [aiCalls EXCEPT ![i] = @ \o FallbackCalls(t)]
                   /\ path' = [path EXCEPT ![i] = "ai"]
                   /\ pc' = [pc EXCEPT ![i] = "awaitAI"]
                   /\ UNCHANGED <<result, now>>
    /\ UNCHANGED <<aiReply, numIn, numOut>>

\* parseTradeTextSmart(text[i]), called from outside the components.
Call(i) ==
    /\ CallOn(i, text[i])
    /\ UNCHANGED <<appVars, formVars>>

\* An invocation made after the ones before it have settled.
Invoke(i) ==
    /\ \A j \in Runs : j < i => pc[j] \in {"done", "failed"}
    /\ Call(i)

\* A variant of AIResolve: the reply settles every invocation that waits.
AIResolveShared(i) ==
    /\ pc[i] = "awaitAI"
    /\ \E r \in AIReplies :
          /\ aiReply' = [aiReply EXCEPT ![i] = r]
          /\ result' = [j \in Runs |-> IF pc[j] = "awaitAI" THEN Passthrough(r) ELSE result[j]]
          /\ pc' = [j \in Runs |-> IF pc[j] = "awaitAI" THEN Settle(r) ELSE pc[j]]
    /\ UNCHANGED <<text, detected, smartParse, path, aiCalls, now, numIn, numOut, appVars, formVars>>

\* The collaborator resolves: the invocation resolves with its record.
AIResolve(i) ==
    /\ pc[i] = "awaitAI"
    /\ \E r \in AIReplies :
          /\ aiReply' = [aiReply EXCEPT ![i] = r]
          /\ result' = [result EXCEPT ![i] = Passthrough(r)]
          /\ pc' = [pc EXCEPT ![i] = Settle(r)]
    /\ UNCHANGED <<text, detected, smartParse, path, aiCalls, now, numIn, numOut, appVars, formVars>>

\* The collaborator rejects (a network or extraction error).
AIReject(i) ==
    /\ pc[i] = "awaitAI"
    /\ aiReply' = [aiReply EXCEPT ![i] = Rejected]
    /\ pc' = [pc EXCEPT ![i] = Settle(Rejected)]
    /\ UNCHANGED <<text, detected, smartParse, result, path, aiCalls, now, numIn, numOut, appVars, formVars>>

Next == \E i \in Runs : Invoke(i) \/ AIResolve(i) \/ AIReject(i)

Spec == Init /\ [][Next]_vars

-----------------------------------------------------------------------------
(* Two invocations on independent texts that overlap in time: the second   *)
(* may be called while the first waits for the collaborator, and the two   *)
(* settle in either order.                                                 *)

\* Position-detail texts with the two PnL captions: the anchor and the two
\* caption/value pairs, any of them and in any order, alone or after a symbol
\* header and an entry price.
ConcTexts ==
    LET items == {ItemTimeOpened,
                  ClosingPnL \o <<"\n", "-", "3", ",", "5">>,
                  PositionPnL \o <<"\n", "+", "7">>}
        orderings == UNION {{q \in [1..k -> items] : \A a, b \in 1..k : a # b => q[a] # q[b]} :
                              k \in 0..Cardinality(items)}
    IN  {JoinWith(h \o q, Newline) :
            h \in {<<>>, <<HeaderSymbol, ItemEntryPrice>>}, q \in orderings}

InitConc ==
    /\ text \in [Runs -> ConcTexts]
    /\ pc = [i \in Runs |-> "idle"]
    /\ detected = [i \in Runs |-> <<>>]
    /\ smartParse = [i \in Runs |-> Null]
    /\ result = [i \in Runs |-> Null]
    /\ path = [i \in Runs |-> "none"]
    /\ aiCalls = [i \in Runs |-> <<>>]
    /\ aiReply = [i \in Runs |-> Null]
    /\ now = 0
    /\ numIn = <<>>
    /\ numOut = NoNumber
    /\ AppIdle
    /\ FormIdle

NextConc == \E i \in Runs : Call(i) \/ AIResolve(i) \/ AIReject(i)

SpecConc == InitConc /\ [][NextConc]_vars

-----------------------------------------------------------------------------
(* The clipboard format: a trade is written as a tab-separated row and the *)
(* row is given to parseTradeTextSmart.                                    *)

RECURSIVE Pow10(_)
Pow10(n) == IF n = 0 THEN 1 ELSE 10 * Pow10(n - 1)

\* The digits of an integer part in groups of three separated by dots.
RECURSIVE GroupThousands(_)
GroupThousands(ds) ==
    IF Len(ds) <= 3 THEN ds
    ELSE GroupThousands(SubSeq(ds, 1, Len(ds) - 3)) \o <<".">> \o SubSeq(ds, Len(ds) - 2, Len(ds))

\* value.toLocaleString('de-DE', {minimumFractionDigits: 2, maximumFractionDigits: 2}):
\* the value rounded to hundredths, the integer part grouped with dots, a
\* decimal comma and two decimals.
formatNumberEuropean(value) ==
    IF value.nan THEN <<"N", "a", "N">>
    ELSE With(IF value.exp <= 2 THEN value.mant * Pow10(2 - value.exp)
              ELSE (value.mant + 5 * Pow10(value.exp - 3)) \div Pow10(value.exp - 2),
           LAMBDA hundredths :
             (IF value.neg THEN <<"-">> ELSE <<>>)
             \o GroupThousands(NatToString(hundredths \div 100))
             \o <<",">> \o PadStart2(NatToString(hundredths % 100)))

\* formatDateCustom on undefined, on the empty string and on the local
\* date-times YYYY-MM-DDTHH:MM:SS and YYYY-MM-DDTHH:MM of a calendar day: day
\* and month without a leading zero, the time at width 2.  Anything else is
\* not a date here.
formatDateCustom(isoStr) ==
    IF ~Truthy(isoStr) THEN <<>>
    ELSE With(isoStr.s, LAMBDA str :
           IF ~(\/ Len(str) = 19 /\ ShapeAt(str, 1, DateShape \o <<"T">> \o TimeShape)
                \/ Len(str) = 16 /\ ShapeAt(str, 1, DateShape \o <<"T", "#", "#", ":", "#", "#">>))
           THEN <<>>
           ELSE With([day |-> DigitsVal(SubSeq(str, 9, 10)), month |-> DigitsVal(SubSeq(str, 6, 7)),
                      year |-> DigitsVal(SubSeq(str, 1, 4)), h |-> DigitsVal(SubSeq(str, 12, 13)),
                      m |-> DigitsVal(SubSeq(str, 15, 16)),
                      s |-> IF Len(str) = 19 THEN DigitsVal(SubSeq(str, 18, 19)) ELSE 0],
                  LAMBDA d :
                    IF ~(d.month \in 1..12 /\ d.day \in 1..28 /\ d.h <= 23 /\ d.m <= 59 /\ d.s <= 59)
                    THEN <<>>
                    ELSE NatToString(d.day) \o <<"/">> \o NatToString(d.month) \o <<"/">>
                         \o NatToString(d.year) \o <<" ">> \o PadStart2(NatToString(d.h))
                         \o <<":">> \o PadStart2(NatToString(d.m)) \o <<":">>
                         \o PadStart2(NatToString(d.s))))

formatTradeToClipboard(trade) ==
    JoinWith(<<formatNumberEuropean(Get(trade, "openPrice").n),
               IF Truthy(Get(trade, "closePrice"))
               THEN formatNumberEuropean(Get(trade, "closePrice").n) ELSE <<>>,
               formatDateCustom(Get(trade, "openTime")),
               formatDateCustom(Get(trade, "closeTime")),
               formatNumberEuropean(Get(trade, "quantity").n),
               Get(trade, "coin").s,
               formatNumberEuropean(MathAbs(Get(trade, "fee").n)),
               formatNumberEuropean(Get(trade, "pnl").n)>>, "\t")

\* Trades with a price above 0, a symbol without tabs and numbers of at most
\* two decimals; a position still open has no closePrice and no closeTime.
ClipTrades ==
    LET open == [uid |-> Str(<<"u", "7">>), leverage |-> IntNum(50)]
        closings == {<<>>, <<SetIf([ok |-> TRUE], "closePrice", Num(MkNum(FALSE, 29444, 1))),
                             SetIf([ok |-> TRUE], "closeTime", Str(<<"2", "0", "2", "5", "-", "1", "2", "-", "1", "7", "T", "1", "0", ":", "3", "8", ":", "2", "3">>))>>}
    IN  {Assign(open, <<SetIf([ok |-> TRUE], "openPrice", Num(p)),
                        SetIf([ok |-> TRUE], "openTime", Str(<<"2", "0", "2", "5", "-", "1", "2", "-", "0", "1", "T", "1", "0", ":", "1", "6", ":", "5", "2">>)),
                        SetIf([ok |-> TRUE], "quantity", Num(q)),
                        SetIf([ok |-> TRUE], "coin", Str(c)),
                        SetIf([ok |-> TRUE], "fee", Num(f)),
                        SetIf([ok |-> TRUE], "pnl", Num(n))>> \o cl) :
            p \in {MkNum(FALSE, 5, 1), MkNum(FALSE, 295458, 2), MkNum(FALSE, 12345678, 1)},
            q \in {Zero, MkNum(FALSE, 4001, 2)},
            c \in {ETH, <<>>, <<" ", "E", "T", "H">>},
            f \in {MkNum(FALSE, 11801, 2), MkNum(TRUE, 15, 1)},
            n \in {MkNum(TRUE, 4073, 1), MkNum(FALSE, 12, 0)},
            cl \in closings}

InitClip ==
    /\ \E trade \in ClipTrades : text = [i \in Runs |-> formatTradeToClipboard(trade)]
    /\ pc = [i \in Runs |-> "idle"]
    /\ detected = [i \in Runs |-> <<>>]
    /\ smartParse = [i \in Runs |-> Null]
    /\ result = [i \in Runs |-> Null]
    /\ path = [i \in Runs |-> "none"]
    /\ aiCalls = [i \in Runs |-> <<>>]
    /\ aiReply = [i \in Runs |-> Null]
    /\ now = 0
    /\ numIn = <<>>
    /\ numOut = NoNumber
    /\ AppIdle
    /\ FormIdle

SpecClip == InitClip /\ [][Next]_vars

-----------------------------------------------------------------------------
(* The number normalizer on its own: one call on an arbitrary short string *)

NumAlphabet == {"1", "0", ",", ".", "-", "a"}

RECURSIVE StringsUpTo(_)
StringsUpTo(n) ==
    IF n = 0 THEN {<<>>}
    ELSE LET shorter == StringsUpTo(n - 1)
         IN  shorter \cup {Append(q, c) : q \in {r \in shorter : Len(r) = n - 1},
                                          c \in NumAlphabet}

NumInputs == StringsUpTo(MaxNumLen)

InitNum ==
    /\ numIn \in NumInputs
    /\ numOut = NoNumber
    /\ AppIdle
    /\ FormIdle
    /\ text = [i \in Runs |-> <<>>]
    /\ pc = [i \in Runs |-> "idle"]
    /\ detected = [i \in Runs |-> <<>>]
    /\ smartParse = [i \in Runs |-> Null]
    /\ result = [i \in Runs |-> Null]
    /\ path = [i \in Runs |-> "none"]
    /\ aiCalls = [i \in Runs |-> <<>>]
    /\ aiReply = [i \in Runs |-> Null]
    /\ now = 0

CallParseNumber ==
    /\ ~numOut.done
    /\ numOut' = [done |-> TRUE, arg |-> numIn, v |-> parseNumber(numIn)]
    /\ UNCHANGED <<text, pc, detected, smartParse, result, path, aiCalls, aiReply, now, numIn, appVars, formVars>>

NextNum == CallParseNumber

SpecNum == InitNum /\ [][NextNum]_vars

-----------------------------------------------------------------------------
(* The two normalizers on written numbers and date tokens: one call on an  *)
(* argument assembled from its parts, recorded together with the result.   *)

MaxFracLen == 3     \* fractional digits of a numeral

\* All strings over the characters of C of length at most n.
RECURSIVE StringsOver(_, _)
StringsOver(C, n) ==
    IF n = 0 THEN {<<>>}
    ELSE LET shorter == StringsOver(C, n - 1)
         IN  shorter \cup {Append(q, c) : q \in {r \in shorter : Len(r) = n - 1}, c \in C}

RECURSIVE Flatten(_)
Flatten(ss) == IF ss = <<>> THEN <<>> ELSE Head(ss) \o Flatten(Tail(ss))

\* Decimal values as written: the groups of three digits of the integer part,
\* the leading group shorter or full and 0 standing alone, and the fractional
\* digits.  The values stay within the integers the model computes with.
Numerals ==
    LET leadGroups == {<<"1">>, <<"1", "2">>, <<"1", "9", "9">>}
        thousandGroups == {<<"2", "3", "4">>, <<"0", "0", "0">>}
        intGroupSeqs == {<<<<"0">>>>} \cup {<<lead>> : lead \in leadGroups}
                        \cup {<<lead, g>> : lead \in leadGroups, g \in thousandGroups}
    IN  {[groups |-> gs, frac |-> f] :
            gs \in intGroupSeqs, f \in StringsOver({"5", "0"}, MaxFracLen)}
        \cup {[groups |-> <<<<"1">>, g, h>>, frac |-> f] :
                g \in thousandGroups, h \in thousandGroups, f \in {<<>>, <<"5">>, <<"5", "0">>}}

\* The numeral n with thousands separator tsep and decimal separator dsep.
Written(n, tsep, dsep) ==
    JoinWith(n.groups, tsep) \o (IF n.frac = <<>> THEN <<>> ELSE <<dsep>> \o n.frac)

\* What parseNumber is called on, by its parts: a numeral written in one of
\* the two conventions after a minus sign and a currency symbol; digit runs
\* between commas with no dot; a calendar date and what follows it.
NumberSources ==
    LET prefixes == {<<>>, <<"-">>, <<"$">>, <<"-", "$">>, <<"$", "-">>}
        commaParts == {<<>>, <<"1">>, <<"5", "6">>, <<"2", "3", "4">>}
        datedStarts == {<<"2", "0", "2", "5", "-", "1", "2", "-", "1", "7">>,
                        <<"1", "7", "/", "1", "2", "/", "2", "0", "2", "5">>}
        datedTails == {<<>>, <<" ", "1", "0", ":", "1", "6", ":", "5", "2">>,
                       <<" ", "1", "0", ":", "1", "6", ":", "5", "2", " ", "S", "A">>,
                       <<"T", "1", "0", ":", "1", "6", ":", "5", "2">>, <<",", "5">>}
        none == [groups |-> <<>>, frac |-> <<>>]
    IN  {[kind |-> "written", numeral |-> n, style |-> st, prefix |-> p, parts |-> <<>>] :
            n \in Numerals, st \in {"EU", "US"}, p \in prefixes}
        \cup {[kind |-> "commas", numeral |-> none, style |-> "", prefix |-> <<>>, parts |-> ps] :
                ps \in UNION {[1..k -> commaParts] : k \in {2, 3}}}
        \cup {[kind |-> "dated", numeral |-> none, style |-> "", prefix |-> <<>>,
               parts |-> <<a, b>>] : a \in datedStarts, b \in datedTails}

NumberText(src) ==
    CASE src.kind = "written" ->
           src.prefix \o (IF src.style = "EU" THEN Written(src.numeral, ".", ",")
                                              ELSE Written(src.numeral, ",", "."))
      [] src.kind = "commas" -> JoinWith(src.parts, ",")
      [] src.kind = "dated" -> src.parts[1] \o src.parts[2]

\* What parseCustomDate is called on, by its parts: a date token
\* D(D)/M(M)/YYYY H(H):MM:SS with an optional meridiem, its numbers within
\* or beyond the calendar and the clock, or a string that does not hold the
\* shape of one.
DateSources ==
    LET days == {<<"7">>, <<"1", "7">>, <<"3", "2">>}
        months == {<<"1">>, <<"1", "2">>, <<"1", "3">>}
        hours == {<<"0">>, <<"9">>, <<"0", "9">>, <<"1", "2">>, <<"1", "3">>, <<"2", "3">>,
                  <<"2", "4">>}
        minutes == {<<"1", "6">>, <<"6", "1">>}
        meridiems == {<<>>, <<" ", "S", "A">>, <<" ", "C", "H">>, <<" ", "s", "a">>,
                      <<"C", "H">>, <<" ", "C", "h">>}
        others == {<<>>,
                   <<"s", "o", "o", "n">>,
                   <<"2", "0", "2", "5", "-", "1", "2", "-", "1", "7", " ", "1", "0", ":", "1", "6", ":", "5", "2">>,
                   <<"1", "7", "/", "1", "2", "/", "2", "0", "2", "5">>,
                   <<"1", "7", "/", "1", "2", "/", "2", "5", " ", "1", "0", ":", "1", "6", ":", "5", "2">>,
                   <<"1", "7", "/", "1", "2", "/", "2", "0", "2", "5", " ", "1", "0", ":", "1", "6">>,
                   <<"1", "7", "-", "1", "2", "-", "2", "0", "2", "5", " ", "1", "0", ":", "1", "6", ":", "5", "2">>,
                   <<"1", "7", "/", "1", "2", "/", "2", "0", "2", "5", "T", "1", "0", ":", "1", "6", ":", "5", "2">>,
                   <<"/", "1", "2", "/", "2", "0", "2", "5", " ", "1", "0", ":", "1", "6", ":", "5", "2">>}
    IN  {[kind |-> "token", day |-> d, month |-> mo, year |-> <<"2", "0", "2", "5">>,
          hour |-> h, minute |-> mi, second |-> <<"5", "2">>, meridiem |-> me,
          raw |-> <<>>] : d \in days, mo \in months, h \in hours, mi \in minutes,
                          me \in meridiems}
        \cup {[kind |-> "other", day |-> <<>>, month |-> <<>>, year |-> <<>>, hour |-> <<>>,
               minute |-> <<>>, second |-> <<>>, meridiem |-> <<>>, raw |-> s] : s \in others}

DateText(src) ==
    IF src.kind = "other" THEN src.raw
    ELSE src.day \o <<"/">> \o src.month \o <<"/">> \o src.year \o <<" ">> \o src.hour
         \o <<":">> \o src.minute \o <<":">> \o src.second \o src.meridiem

InitNorm ==
    /\ numIn = <<>>
    /\ numOut = NoNumber
    /\ AppIdle
    /\ FormIdle
    /\ text = [i \in Runs |-> <<>>]
    /\ pc = [i \in Runs |-> "idle"]
    /\ detected = [i \in Runs |-> <<>>]
    /\ smartParse = [i \in Runs |-> Null]
    /\ result = [i \in Runs |-> Null]
    /\ path = [i \in Runs |-> "none"]
    /\ aiCalls = [i \in Runs |-> <<>>]
    /\ aiReply = [i \in Runs |-> Null]
    /\ now = 0

\* parseNumber(s) on a written number.
NormalizeNumber ==
    /\ ~numOut.done
    /\ \E src \in NumberSources : \E s \in {NumberText(src)} :
          numOut' = [done |-> TRUE, arg |-> s, v |-> parseNumber(s), fn |-> "parseNumber",
                     src |-> src]
    /\ UNCHANGED <<text, pc, detected, smartParse, result, path, aiCalls, aiReply, now, numIn, appVars, formVars>>

\* parseCustomDate(s) on a date token or another string.
NormalizeDate ==
    /\ ~numOut.done
    /\ \E src \in DateSources : \E s \in {DateText(src)} :
          numOut' = [done |-> TRUE, arg |-> s, v |-> parseCustomDate(s),
                     fn |-> "parseCustomDate", src |-> src]
    /\ UNCHANGED <<text, pc, detected, smartParse, result, path, aiCalls, aiReply, now, numIn, appVars, formVars>>

\* The earlier copy's parseNumber(s) on a written number.
NormalizeLegacy ==
    /\ ~numOut.done
    /\ \E src \in NumberSources : \E s \in {NumberText(src)} :
          numOut' = [done |-> TRUE, arg |-> s, v |-> parseNumberLegacy(s),
                     fn |-> "parseNumberLegacy", src |-> src]
    /\ UNCHANGED <<text, pc, detected, smartParse, result, path, aiCalls, aiReply, now, numIn, appVars, formVars>>

NextNorm == NormalizeNumber \/ NormalizeDate \/ NormalizeLegacy

SpecNorm == InitNorm /\ [][NextNorm]_vars

-----------------------------------------------------------------------------
(* App: the session.  A loginUser call is in flight from the moment it is   *)
(* made until its promise settles; the service reads the stored data at     *)
(* some moment in between.  saveUserData writes the stored data when it is  *)
(* called.  A handler's state setters are committed together, and the two   *)
(* effects run on the committed state.                                      *)

MaxInflight == 2
MaxNewPairs == 1

\* apiService.loginUser(user), called by the effect or by handleLogin.
LoginCall(user, from) ==
    [user |-> user, from |-> from, served |-> FALSE,
     data |-> UserData(<<>>, DefaultMonthlyVolumeTarget, DefaultStartingEquity)]

Without(calls, k) == SubSeq(calls, 1, k - 1) \o SubSeq(calls, k + 1, Len(calls))

Ids(hp) == {hp[k].id : k \in DOMAIN hp}

\* The ids no list holds, on screen, stored or on its way back.
FreeIds ==
    {n \in 1..MaxNewPairs :
        /\ n \notin Ids(hedgedPairs)
        /\ \A u \in Users : n \notin Ids(server[u].hedgedPairs)
        /\ \A k \in DOMAIN inflight : n \notin Ids(inflight[k].data.hedgedPairs)}

\* The state the setters of one handler leave, committed, and then the two
\* effects: loadInitialData when currentUser has changed, and the save
\* effect when one of its dependencies has changed (set: hedgedPairs was
\* given a new array).
Commit(user, hp, set, mvt, se, loading, calls) ==
    LET \* loadInitialData with no user goes straight to setIsLoading(false)
        loaded == IF user # currentUser /\ user = NoUser THEN FALSE ELSE loading
        changed == \/ set
                   \/ user # currentUser
                   \/ mvt # monthlyVolumeTarget
                   \/ se # startingEquity
                   \/ loaded # isLoading
    IN  /\ currentUser' = user
        /\ hedgedPairs' = hp
        /\ monthlyVolumeTarget' = mvt
        /\ startingEquity' = se
        /\ isLoading' = loaded
        /\ inflight' = IF user # currentUser /\ user # NoUser
                       THEN Append(calls, LoginCall(user, "effect"))
                       ELSE calls
        /\ IF changed /\ user # NoUser /\ ~loaded
           THEN /\ server' = [server EXCEPT ![user] = UserData(hp, mvt, se)]
                /\ saveCalls' = {[user |-> user, data |-> UserData(hp, mvt, se)]}
           ELSE /\ saveCalls' = {}
                /\ UNCHANGED server

\* App is mounted with the user name the browser has kept, if any, and the
\* effects of the first render have run.
InitApp ==
    /\ text = [i \in Runs |-> <<>>]
    /\ pc = [i \in Runs |-> "idle"]
    /\ detected = [i \in Runs |-> <<>>]
    /\ smartParse = [i \in Runs |-> Null]
    /\ result = [i \in Runs |-> Null]
    /\ path = [i \in Runs |-> "none"]
    /\ aiCalls = [i \in Runs |-> <<>>]
    /\ aiReply = [i \in Runs |-> Null]
    /\ now = 0
    /\ numIn = <<>>
    /\ numOut = NoNumber
    /\ FormIdle
    /\ \E u \in Users \cup {NoUser} :
          /\ currentUser = u
          /\ isLoading = (u # NoUser)
          /\ inflight = IF u # NoUser THEN <<LoginCall(u, "effect")>> ELSE <<>>
    /\ hedgedPairs = <<>>
    /\ monthlyVolumeTarget = DefaultMonthlyVolumeTarget
    /\ startingEquity = DefaultStartingEquity
    /\ isModalOpen = FALSE
    /\ editingPair = Null
    /\ server = StoredAtStart
    /\ saveCalls = {}

\* The service reads what it holds for the user of call k.
loginUserServes(k) ==
    /\ k \in DOMAIN inflight
    /\ ~inflight[k].served
    /\ inflight' = [inflight EXCEPT ![k].served = TRUE, ![k].data = server[inflight[k].user]]
    /\ UNCHANGED <<currentUser, hedgedPairs, monthlyVolumeTarget, startingEquity, isLoading,
                   isModalOpen, editingPair, server, saveCalls, parserVars, formVars>>

\* loadInitialData after the await: the three setters, then setIsLoading(false).
loadInitialDataResolves(k) ==
    /\ k \in DOMAIN inflight
    /\ inflight[k].from = "effect" /\ inflight[k].served
    /\ Commit(currentUser, inflight[k].data.hedgedPairs, TRUE,
              inflight[k].data.monthlyVolumeTarget, inflight[k].data.startingEquity,
              FALSE, Without(inflight, k))
    /\ UNCHANGED <<isModalOpen, editingPair, parserVars, formVars>>

\* loadInitialData, catch: setCurrentUser(null), then setIsLoading(false).
loadInitialDataRejects(k) ==
    /\ k \in DOMAIN inflight
    /\ inflight[k].from = "effect"
    /\ Commit(NoUser, hedgedPairs, FALSE, monthlyVolumeTarget, startingEquity,
              FALSE, Without(inflight, k))
    /\ UNCHANGED <<isModalOpen, editingPair, parserVars, formVars>>

\* handleLogin up to the await.  The login screen is shown when there is no
\* user and nothing is loading.
handleLogin(username) ==
    /\ currentUser = NoUser /\ ~isLoading
    /\ Len(inflight) < MaxInflight
    /\ Commit(currentUser, hedgedPairs, FALSE, monthlyVolumeTarget, startingEquity,
              TRUE, Append(inflight, LoginCall(username, "login")))
    /\ UNCHANGED <<isModalOpen, editingPair, parserVars, formVars>>

\* handleLogin after the await: the three setters, setCurrentUser(username),
\* and setIsLoading(false) in finally.
handleLoginResolves(k) ==
    /\ k \in DOMAIN inflight
    /\ inflight[k].from = "login" /\ inflight[k].served
    /\ Commit(inflight[k].user, inflight[k].data.hedgedPairs, TRUE,
              inflight[k].data.monthlyVolumeTarget, inflight[k].data.startingEquity,
              FALSE, Without(inflight, k))
    /\ UNCHANGED <<isModalOpen, editingPair, parserVars, formVars>>

\* handleLogin, catch and finally: setIsLoading(false).
handleLoginRejects(k) ==
    /\ k \in DOMAIN inflight
    /\ inflight[k].from = "login"
    /\ Commit(currentUser, hedgedPairs, FALSE, monthlyVolumeTarget, startingEquity,
              FALSE, Without(inflight, k))
    /\ UNCHANGED <<isModalOpen, editingPair, parserVars, formVars>>

\* The logout button of the dashboard.
handleLogout ==
    /\ currentUser # NoUser
    /\ Commit(NoUser, <<>>, TRUE, DefaultMonthlyVolumeTarget, DefaultStartingEquity,
              isLoading, inflight)
    /\ UNCHANGED <<isModalOpen, editingPair, parserVars, formVars>>

handleOpenModal ==
    /\ currentUser # NoUser /\ ~isModalOpen
    /\ editingPair' = Null
    /\ isModalOpen' = TRUE
    /\ UNCHANGED <<currentUser, hedgedPairs, monthlyVolumeTarget, startingEquity, isLoading,
                   inflight, server, saveCalls, parserVars, formVars>>

handleEditPair(pair) ==
    /\ currentUser # NoUser /\ ~isModalOpen
    /\ editingPair' = pair
    /\ isModalOpen' = TRUE
    /\ UNCHANGED <<currentUser, hedgedPairs, monthlyVolumeTarget, startingEquity, isLoading,
                   inflight, server, saveCalls, parserVars, formVars>>

\* hedgedPairs.map(p => p.id === pair.id ? pair : p)
ReplacePair(hp, pair) == [k \in DOMAIN hp |-> IF hp[k].id = pair.id THEN pair ELSE hp[k]]

\* The order form is submitted.  An edited pair keeps its id; a new pair gets
\* the reading of the clock, which no pair has had before.
handleSavePair ==
    /\ currentUser # NoUser /\ isModalOpen
    /\ IF editingPair # Null
       THEN Commit(currentUser,
                   ReplacePair(hedgedPairs, Pair(editingPair.id, editingPair.owner, TRUE)), TRUE,
                   monthlyVolumeTarget, startingEquity, isLoading, inflight)
       ELSE /\ FreeIds # {}
            /\ Commit(currentUser,
                      Append(hedgedPairs, Pair(Min(FreeIds), currentUser, TRUE)), TRUE,
                      monthlyVolumeTarget, startingEquity, isLoading, inflight)
    /\ isModalOpen' = FALSE
    /\ editingPair' = Null
    /\ UNCHANGED <<parserVars, formVars>>

\* hedgedPairs.filter(p => p.id !== id), once the user has confirmed
handleDeletePair(id) ==
    /\ currentUser # NoUser
    /\ id \in Ids(hedgedPairs)
    /\ Commit(currentUser, SelectSeq(hedgedPairs, LAMBDA p : p.id # id), TRUE,
              monthlyVolumeTarget, startingEquity, isLoading, inflight)
    /\ UNCHANGED <<isModalOpen, editingPair, parserVars, formVars>>

NextApp ==
    \/ \E k \in 1..MaxInflight : loginUserServes(k)
    \/ \E k \in 1..MaxInflight : loadInitialDataResolves(k)
    \/ \E k \in 1..MaxInflight : loadInitialDataRejects(k)
    \/ \E u \in Users : handleLogin(u)
    \/ \E k \in 1..MaxInflight : handleLoginResolves(k)
    \/ \E k \in 1..MaxInflight : handleLoginRejects(k)
    \/ handleLogout
    \/ handleOpenModal
    \/ \E k \in DOMAIN hedgedPairs : handleEditPair(hedgedPairs[k])
    \/ handleSavePair
    \/ \E id \in 0..MaxNewPairs : handleDeletePair(id)

SpecApp == InitApp /\ [][NextApp]_vars

-----------------------------------------------------------------------------
(* OrderForm and its AIPasteModal: the modal is opened for one of the two   *)
(* trades, text is pasted, handleParse gives it to parseTradeTextSmart and  *)
(* the record the parser resolves with is spread into the target trade.     *)

\* A pair as App passes it to the form for editing.
StoredPair ==
    [id |-> <<"p">>,
     tradeA |-> Spread(emptyTrade, [uid |-> Str(<<"u", "7">>), leverage |-> IntNum(50)]),
     tradeB |-> Spread(emptyTrade, [uid |-> Str(<<"u", "8">>), leverage |-> IntNum(20)])]

\* What is pasted: blank text, position details with and without a symbol
\* header, and a text no detector knows.
PasteTexts ==
    {<<" ", "\n">>,
     JoinWith(<<HeaderSymbol, ItemEntryPrice, ItemTimeOpened>>, Newline),
     JoinWith(<<ItemEntryPrice, ItemTimeOpened>>, Newline),
     ItemNote}

\* OrderForm is mounted for a new pair or for a stored one; the paste modal
\* is not shown.
InitPaste ==
    /\ text = [i \in Runs |-> <<>>]
    /\ pc = [i \in Runs |-> "idle"]
    /\ detected = [i \in Runs |-> <<>>]
    /\ smartParse = [i \in Runs |-> Null]
    /\ result = [i \in Runs |-> Null]
    /\ path = [i \in Runs |-> "none"]
    /\ aiCalls = [i \in Runs |-> <<>>]
    /\ aiReply = [i \in Runs |-> Null]
    /\ now = 0
    /\ numIn = <<>>
    /\ numOut = NoNumber
    /\ AppIdle
    /\ formData \in {emptyPair, StoredPair}
    /\ aiTarget = NoTarget
    /\ isAIPasteModalOpen = FALSE
    /\ ModalFresh
    /\ attempt = NoAttempt
    /\ completions = [i \in Runs |-> <<>>]

\* setAiTarget(target); setIsAIPasteModalOpen(true): the modal is mounted.
handleOpenAIPaste(target) ==
    /\ ~isAIPasteModalOpen
    /\ aiTarget' = target
    /\ isAIPasteModalOpen' = TRUE
    /\ modalText' = <<>>
    /\ modalIsLoading' = FALSE
    /\ modalError' = NoError
    /\ attempt' = NoAttempt
    /\ UNCHANGED <<formData, completions, parserVars, appVars>>

\* onChange of the textarea, which is disabled while isLoading
setText(t) ==
    /\ isAIPasteModalOpen /\ ~modalIsLoading
    /\ modalText' = t
    /\ UNCHANGED <<formData, aiTarget, isAIPasteModalOpen, modalIsLoading, modalError,
                   attempt, completions, parserVars, appVars>>

\* onClose={() => setIsAIPasteModalOpen(false)}; the buttons are disabled
\* while isLoading
onClose ==
    /\ isAIPasteModalOpen /\ ~modalIsLoading
    /\ isAIPasteModalOpen' = FALSE
    /\ UNCHANGED <<formData, aiTarget, modalText, modalIsLoading, modalError,
                   attempt, completions, parserVars, appVars>>

\* handleParse up to the await; the parser call it makes is invocation i.
handleParse(i) ==
    /\ isAIPasteModalOpen /\ ~modalIsLoading
    /\ \A j \in Runs : j < i => pc[j] # "idle"
    /\ pc[i] = "idle"
    /\ IF Trim(modalText) = <<>>
       THEN /\ modalError' = "Please paste the trade information first."
            /\ attempt' = [run |-> 0, stage |-> "blank"]
            /\ UNCHANGED <<modalIsLoading, parserVars>>
       ELSE /\ modalIsLoading' = TRUE
            /\ modalError' = NoError
            /\ attempt' = [run |-> i, stage |-> "started"]
            /\ CallOn(i, modalText)
    /\ UNCHANGED <<formData, aiTarget, isAIPasteModalOpen, modalText, completions, appVars>>

\* setFormData(prev => ({ ...prev, [aiTarget]: { ...prev[aiTarget], ...parsedTrade } }))
handleAiParseComplete(prev, target, parsedTrade) ==
    IF target # NoTarget
    THEN [prev EXCEPT ![target] = Spread(prev[target], parsedTrade)]
    ELSE prev

\* A variant of handleParseSettles: onParseComplete is called whether the
\* parser resolved or rejected, and isLoading is left as it is.
handleParseSettlesAlways(i) ==
    /\ attempt = [run |-> i, stage |-> "started"]
    /\ pc[i] \in {"done", "failed"}
    /\ completions' = [completions EXCEPT ![i] = Append(@, result[i])]
    /\ formData' = formData
    /\ isAIPasteModalOpen' = FALSE
    /\ aiTarget' = NoTarget
    /\ attempt' = [run |-> i, stage |-> IF pc[i] = "done" THEN "completed" ELSE "errored"]
    /\ UNCHANGED <<modalText, modalIsLoading, modalError, parserVars, appVars>>

\* handleParse after the await.  Resolved: onParseComplete(parsedTrade), which
\* is handleAiParseComplete and closes the modal.  Rejected: setError.  In
\* both cases setIsLoading(false).
handleParseSettles(i) ==
    /\ attempt = [run |-> i, stage |-> "started"]
    /\ pc[i] \in {"done", "failed"}
    /\ IF pc[i] = "done"
       THEN /\ completions' = [completions EXCEPT ![i] = Append(@, result[i])]
            /\ formData' = handleAiParseComplete(formData, aiTarget, result[i])
            /\ isAIPasteModalOpen' = FALSE
            /\ aiTarget' = NoTarget
            /\ attempt' = [run |-> i, stage |-> "completed"]
            /\ UNCHANGED modalError
       ELSE /\ modalError' = "An unknown error occurred."
            /\ attempt' = [run |-> i, stage |-> "errored"]
            /\ UNCHANGED <<completions, formData, isAIPasteModalOpen, aiTarget>>
    /\ modalIsLoading' = FALSE
    /\ UNCHANGED <<modalText, parserVars, appVars>>

NextPaste ==
    \/ \E target \in TradeKeys : handleOpenAIPaste(target)
    \/ \E t \in PasteTexts : setText(t)
    \/ onClose
    \/ \E i \in Runs : handleParse(i)
    \/ \E i \in Runs : AIResolve(i)
    \/ \E i \in Runs : AIReject(i)
    \/ \E i \in Runs : handleParseSettles(i)

SpecPaste == InitPaste /\ [][NextPaste]_vars

-----------------------------------------------------------------------------
(* Properties                                                              *)

Settled(i) == pc[i] \in {"done", "failed"}
Clock == 0..MaxClock

\* The detectors whose guard the text of invocation i satisfies (they return
\* a record), once the invocation has run them.
Guarded(i) == {k \in 1..Len(detected[i]) : detected[i][k] # Null}

\* v is a number other than 0 and NaN.
NonzeroNumber(v) == v.t = "number" /\ ~v.n.nan /\ v.n.mant > 0

\* C1: when the first detector whose anchor matches gives a record that fails
\* the gate, the remaining detectors are tried in order and the first
\* gate-passing result is returned; the collaborator is called only if no
\* detector's result passes the gate.
C1_CascadeContinuesPastGateFailure ==
    \A i \in Runs : path[i] # "none" =>
        LET rs == detected[i]
            passing == {k \in 1..Len(rs) : Gate(rs[k])}
        IN  IF passing # {}
            THEN /\ path[i] = "heuristic"
                 /\ aiCalls[i] = <<>>
                 /\ \E c \in Clock : result[i] = Spread(Defaults(c), rs[Min(passing)])
            ELSE path[i] = "ai"

\* C2: a record returned from the heuristic path comes from a detector result
\* whose openPrice is a number other than 0 and NaN and which has a nonzero
\* quantity or a non-empty symbol, and the returned record carries them.
C2_ReturnedPassesGate ==
    \A i \in Runs : path[i] = "heuristic" =>
        /\ \E k \in Guarded(i) : detected[i][k] = smartParse[i]
        /\ \A r \in {smartParse[i], result[i]} :
              /\ NonzeroNumber(Get(r, "openPrice"))
              /\ \/ NonzeroNumber(Get(r, "quantity"))
                 \/ Get(r, "coin").t = "string" /\ Len(Get(r, "coin").s) > 0

\* C2 witness: a heuristic return whose detector found the symbol but no quantity.
C2_Witness ==
    \E i \in Runs : /\ pc[i] = "done" /\ path[i] = "heuristic"
                    /\ "quantity" \notin DOMAIN smartParse[i]
                    /\ "coin" \in DOMAIN smartParse[i]

\* C3: a record returned from the heuristic path is total: every required
\* field is defined, and a field the detector did not obtain carries its
\* default (openTime: the current time).
C3_ReturnedRecordTotal ==
    \A i \in Runs : path[i] = "heuristic" =>
        \A k \in RequiredKeys :
            /\ Get(result[i], k) # Undefined
            /\ Get(smartParse[i], k) = Undefined =>
                  \E c \in Clock : result[i][k] = Defaults(c)[k]

NoAnchorNoRow(t) ==
    /\ \A a \in {GiaMo, GiaDong, OpenTimeCaption, TimeOpened, OpeningAveragePrice, EntryPrice} :
          ~Includes(t, a)
    /\ \/ Len(Split(t, "\t")) < TabularColumns
       \/ Trim(Split(t, "\t")[1]) = <<>>
       \/ Trim(Split(t, "\t")[1])[1] \notin Digits

C6_AIResultUnchanged ==
    \A i \in Runs : (path[i] = "ai" /\ pc[i] = "done") =>
        /\ DOMAIN result[i] = DOMAIN aiReply[i]
        /\ \A k \in DOMAIN aiReply[i] : result[i][k] = aiReply[i][k]

\* C6 witness: a collaborator record lacking a defaulted field was returned.
C6_Witness ==
    \E i \in Runs : /\ path[i] = "ai" /\ pc[i] = "done"
                    /\ "uid" \notin DOMAIN aiReply[i]

\* C7: the invocation fails if and only if the collaborator call fails; a
\* collaborator failure yields no record, and the heuristic path never fails.
C7_FailsIffCollaboratorFails ==
    \A i \in Runs :
        /\ pc[i] = "failed" <=> aiReply[i] = Rejected
        /\ pc[i] = "failed" => (path[i] = "ai" /\ result[i] = Null)
        /\ path[i] = "heuristic" => pc[i] = "done"

\* C7 witness: one invocation failed on a rejected collaborator call, after
\* another returned a record.
C7_Witness ==
    \E i, j \in Runs : pc[i] = "failed" /\ aiReply[i] = Rejected /\ pc[j] = "done"

C9_FeeNonNegative ==
    \A i \in Runs : path[i] = "heuristic" =>
        /\ Get(result[i], "fee").t = "number"
        /\ GeqZero(Get(result[i], "fee").n)

\* C10: parseNumber never returns NaN.
C10_NeverNaN == numOut.done => ~IsNaN(numOut.v)

\* The call recorded in numOut was a call of fn on an argument given by parts.
Parsed(fn, kind) ==
    numOut.done /\ "fn" \in DOMAIN numOut /\ numOut.fn = fn /\ numOut.src.kind = kind

\* The value a numeral stands for.
ValueOf(n) == MkNum(FALSE, DigitsVal(Flatten(n.groups) \o n.frac), Len(n.frac))

\* Written with dot thousands separators and a decimal comma, the numeral is
\* not open to the other reading: it holds both separators, or only a comma
\* that is not followed by exactly three digits, or no separator at all.
UnambiguousEU(n) ==
    \/ n.frac # <<>> /\ (Len(n.groups) > 1 \/ Len(n.frac) # 3)
    \/ n.frac = <<>> /\ Len(n.groups) = 1

\* C11 as stated: parseNumber of a decimal value written in either convention
\* is that value.
C11_BothEncodingsRoundTrip ==
    (Parsed("parseNumber", "written") /\ numOut.src.prefix = <<>>)
        => numOut.v = ValueOf(numOut.src.numeral)

\* C11 amended: parseNumber of a decimal value written with comma thousands
\* separators and a decimal dot is that value; written with dot thousands
\* separators and a decimal comma it is that value when the text holds both
\* separators, or a comma not followed by exactly three digits, or no
\* separator.
C11_RoundTripWhereUnambiguous ==
    (Parsed("parseNumber", "written") /\ numOut.src.prefix = <<>>
        /\ (numOut.src.style = "US" \/ UnambiguousEU(numOut.src.numeral)))
        => numOut.v = ValueOf(numOut.src.numeral)

\* C11 witness: a value of a thousand or more with a fraction, written with
\* dots and a decimal comma, was read back.
C11_Witness ==
    /\ Parsed("parseNumber", "written") /\ numOut.src.prefix = <<>>
    /\ numOut.src.style = "EU"
    /\ Len(numOut.src.numeral.groups) > 1 /\ Len(numOut.src.numeral.frac) = 3
    /\ numOut.v = ValueOf(numOut.src.numeral)

\* C12: for an argument with commas and no dot, when the digits after the
\* final comma are not exactly three the result is the value read with that
\* comma as the decimal point, and when they are three it is the integer
\* left by removing all commas.
C12_CommaOnlyByLastRun ==
    Parsed("parseNumber", "commas") =>
        LET ps == numOut.src.parts
            last == ps[Len(ps)]
            front == SubSeq(ps, 1, Len(ps) - 1)
        IN  numOut.v = IF Len(last) # 3
                       THEN MkNum(FALSE, DigitsVal(Flatten(front) \o last), Len(last))
                       ELSE MkNum(FALSE, DigitsVal(Flatten(ps)), 0)

C14_DateShapedIsZero ==
    Parsed("parseNumber", "dated") => numOut.v = Zero

\* C14 witness: a date followed by a time was given and 0 came back.
C14_Witness ==
    /\ Parsed("parseNumber", "dated")
    /\ Len(numOut.src.parts[2]) > 1
    /\ numOut.v = Zero

\* The two digits of n < 100.
TwoDigits(n) ==
    <<CHOOSE c \in Digits : DigitVal[c] = n \div 10, CHOOSE c \in Digits : DigitVal[c] = n % 10>>

\* The hour of a token on the 24-hour clock.
Hour24(src) ==
    LET h == DigitsVal(src.hour)
        letters == Keep(src.meridiem, Alpha)
        afternoon == letters # <<>> /\ letters[1] \in {"C", "c"}
        morning == letters # <<>> /\ letters[1] \in {"S", "s"}
    IN  IF afternoon /\ h < 12 THEN h + 12
        ELSE IF morning /\ h = 12 THEN 0
        ELSE h

\* C15: for a token D(D)/M(M)/YYYY H(H):MM:SS with an optional SA or CH in
\* any case, parseCustomDate returns YYYY-MM-DDTHH:MM:SS with day, month and
\* hour at width 2 and the hour on the 24-hour clock.
C15_TokenToIso ==
    Parsed("parseCustomDate", "token") =>
        LET src == numOut.src
            pad(x) == IF Len(x) = 1 THEN <<"0">> \o x ELSE x
        IN  numOut.v = Str(src.year \o <<"-">> \o pad(src.month) \o <<"-">> \o pad(src.day)
                           \o <<"T">> \o TwoDigits(Hour24(src)) \o <<":">> \o src.minute
                           \o <<":">> \o src.second)

\* C15 witness: a one-digit day and hour with a mixed-case afternoon mark.
C15_Witness ==
    /\ Parsed("parseCustomDate", "token")
    /\ numOut.src.day = <<"7">> /\ numOut.src.hour = <<"9">>
    /\ numOut.src.meridiem = <<" ", "C", "h">>
    /\ numOut.v.t = "string" /\ SubSeq(numOut.v.s, 9, 13) = <<"0", "7", "T", "2", "1">>

\* C16: for a string that does not hold the token shape, the empty string
\* included, parseCustomDate returns undefined.
C16_NoShapeIsUndefined ==
    Parsed("parseCustomDate", "other") => numOut.v = Undefined

\* C16 witness: the empty string was given and undefined came back.
C16_Witness ==
    /\ Parsed("parseCustomDate", "other")
    /\ numOut.arg = <<>>
    /\ numOut.v = Undefined

\* The fields of the text of invocation i between its tab characters.
Fields(i) == Split(text[i], "\t")

\* C17: for every text the Tabular detector accepts, openPrice is parseNumber
\* of field 1, closePrice parseNumber of field 2, openTime parseCustomDate of
\* field 3, closeTime parseCustomDate of field 4, quantity parseNumber of
\* field 5, the symbol field 6 trimmed, fee the absolute value of parseNumber
\* of field 7, and pnl parseNumber of field 8 with its sign.
C17_TabularFieldsByPosition ==
    \A i \in Runs :
        (pc[i] # "idle" /\ detected[i][1] # Null) =>
            \E f \in {Fields(i)} : \E row \in {detected[i][1]} :
                /\ row.openPrice = Num(parseNumber(f[1]))
                /\ row.closePrice = Num(parseNumber(f[2]))
                /\ row.openTime = parseCustomDate(f[3])
                /\ row.closeTime = parseCustomDate(f[4])
                /\ row.quantity = Num(parseNumber(f[5]))
                /\ row.coin = Str(Trim(f[6]))
                /\ row.fee = Num(MathAbs(parseNumber(f[7])))
                /\ row.pnl = Num(parseNumber(f[8]))

\* C17 witness: a row was accepted whose symbol was written between spaces,
\* whose fee was written negative and whose loss kept its sign.
C17_Witness ==
    \E i \in Runs :
        /\ pc[i] # "idle" /\ detected[i][1] # Null
        /\ Fields(i)[6] = <<" ", "E", "T", "H", " ">> /\ detected[i][1].coin = Str(ETH)
        /\ Fields(i)[7] = <<"-", "$", "1", ",", "5">>
        /\ detected[i][1].fee = Num(MkNum(FALSE, 15, 1))
        /\ detected[i][1].pnl = Num(MkNum(TRUE, 50175, 2))
        /\ detected[i][1].openPrice = Num(MkNum(FALSE, 286090, 2))
        /\ detected[i][1].closePrice = Num(MkNum(FALSE, 282745, 2))

\* C18: the Tabular detector answers exactly for the texts that split on tabs
\* into exactly 8 fields, the first of which begins with a digit.
C18_TabularExactlyEightFields ==
    \A i \in Runs :
        pc[i] # "idle" =>
            (detected[i][1] # Null
                <=> /\ Len(Fields(i)) = 8
                    /\ Trim(Fields(i)[1]) # <<>>
                    /\ Trim(Fields(i)[1])[1] \in {"0", "1", "2", "3", "4", "5", "6", "7", "8", "9"})

\* The text of invocation i holds the caption followed by a value on the
\* next line.
HoldsPair(i, caption, value) == Includes(text[i], caption \o <<"\n">> \o value)

\* C19: for every text with the anchor Time Opened and both a Closing PnL
\* pair and a Position PnL pair, in either order, the mobile-layout detector
\* sets pnl to the value under Closing PnL; the value under Position PnL is
\* the pnl only when there is no Closing PnL pair.
C19_ClosingPnLPreferred ==
    \A i \in Runs :
        (pc[i] # "idle" /\ Includes(text[i], TimeOpened)) =>
            /\ detected[i][4] # Null
            /\ HoldsPair(i, ClosingPnL, <<"-", "3", ",", "5">>)
                  => Get(detected[i][4], "pnl") = Num(MkNum(TRUE, 35, 1))
            /\ (~Includes(text[i], ClosingPnL) /\ HoldsPair(i, PositionPnL, <<"+", "7">>))
                  => Get(detected[i][4], "pnl") = Num(MkNum(FALSE, 7, 0))
            /\ (~Includes(text[i], ClosingPnL) /\ ~Includes(text[i], PositionPnL))
                  => Get(detected[i][4], "pnl") = Undefined

\* C19 witness: the Position PnL pair came before the Closing PnL pair and the
\* pnl is the closing one.
C19_Witness ==
    \E i \in Runs :
        /\ pc[i] = "done" /\ path[i] = "heuristic"
        /\ Includes(text[i], PositionPnL \o <<"\n", "+", "7", "\n">> \o ClosingPnL
                             \o <<"\n", "-", "3", ",", "5">>)
        /\ smartParse[i] = detected[i][4]
        /\ Get(result[i], "pnl") = Num(MkNum(TRUE, 35, 1))

\* C20: of two invocations on independent texts that overlap in time, each
\* settles as it would alone: with its own detector result merged over the
\* defaults when that passes the gate, and otherwise with the answer the
\* collaborator gave to its own single call, or failing when that call failed.
C20_EachSettlesAsAlone ==
    \A i \in Runs :
        /\ pc[i] # "idle" =>
              /\ detected[i] = DetectorResults(text[i])
              /\ smartParse[i] = DetectorChain(text[i])
              /\ (path[i] = "heuristic") <=> Gate(DetectorChain(text[i]))
        /\ (pc[i] = "done" /\ path[i] = "heuristic") =>
              /\ \E c \in Clock : result[i] = MergeDefaults(c, DetectorChain(text[i]))
              /\ aiCalls[i] = <<>> /\ aiReply[i] = Null
        /\ (pc[i] = "done" /\ path[i] = "ai") =>
              /\ aiCalls[i] = <<text[i]>>
              /\ aiReply[i] \in AIReplies /\ result[i] = aiReply[i]
        /\ pc[i] = "failed" =>
              /\ path[i] = "ai" /\ aiCalls[i] = <<text[i]>>
              /\ aiReply[i] = Rejected /\ result[i] = Null
        /\ pc[i] = "awaitAI" => (result[i] = Null /\ aiReply[i] = Null)

\* C20 witness: the two invocations have different texts, and the second has
\* settled with the collaborator's answer to its own call while the first
\* still waits for the answer to its call.
C20_Witness ==
    /\ text[1] # text[2]
    /\ pc[1] = "awaitAI" /\ aiCalls[1] = <<text[1]>> /\ result[1] = Null
    /\ pc[2] = "done" /\ path[2] = "ai" /\ aiCalls[2] = <<text[2]>>
    /\ result[2] = aiReply[2]

\* The text holds a comma, no dot, and after its final comma a run of digits
\* whose length is not 3.
CommaDecimalClass(s) ==
    /\ LastIndexOf(s, ",") > -1
    /\ LastIndexOf(s, ".") = -1
    /\ Run(s, LastIndexOf(s, ",") + 2, Digits) # 3

\* The earlier copy's parseNumber was called.
LegacyParsed == numOut.done /\ "fn" \in DOMAIN numOut /\ numOut.fn = "parseNumberLegacy"

C22_DefaultsOnlyFillGaps ==
    \A i \in Runs :
        (pc[i] = "done" /\ path[i] = "heuristic") =>
            /\ DOMAIN result[i] = RequiredKeys \cup DOMAIN smartParse[i]
            /\ \A k \in DOMAIN smartParse[i] : result[i][k] = smartParse[i][k]
            /\ \E c \in Clock :
                  \A k \in RequiredKeys \ DOMAIN smartParse[i] : result[i][k] = Defaults(c)[k]

\* C22 witness: the detector read a leverage of 20 and a price and set no
\* pnl and no fee; the record has the leverage 20, and 0 for pnl and fee.
C22_Witness ==
    \E i \in Runs :
        /\ pc[i] = "done" /\ path[i] = "heuristic"
        /\ Get(smartParse[i], "leverage") = IntNum(20) /\ result[i].leverage = IntNum(20)
        /\ Truthy(result[i].openPrice)
        /\ {"pnl", "fee"} \cap DOMAIN smartParse[i] = {}
        /\ result[i].pnl = IntNum(0) /\ result[i].fee = IntNum(0)

\* The text of invocation i holds an anchor of a layout served before the
\* fallback detectors: Time Opened, Open Time, or one of the two localized
\* price captions.
HoldsEarlierAnchor(i) ==
    \E a \in {TimeOpened, OpenTimeCaption, GiaMo, GiaDong} : Includes(text[i], a)

\* C23: parseFormatAivoraEn and parseFormatBitunixWeb return no match for
\* every text that holds an anchor of a layout served before them.
C23_FallbacksYieldToAnchors ==
    \A i \in Runs :
        (pc[i] # "idle" /\ HoldsEarlierAnchor(i)) =>
            (detected[i][5] = Null /\ detected[i][6] = Null)

C25_ClipboardRoundTrip ==
    \A i \in Runs : \A trade \in ClipTrades :
        (pc[i] # "idle" /\ text[i] = formatTradeToClipboard(trade)) =>
            /\ path[i] = "heuristic" /\ aiCalls[i] = <<>>
            /\ Get(result[i], "openPrice") = trade.openPrice
            /\ Get(result[i], "closePrice") = Get(trade, "closePrice")
            /\ Get(result[i], "quantity") = trade.quantity
            /\ Get(result[i], "coin") = trade.coin
            /\ Get(result[i], "pnl") = trade.pnl
            /\ Get(result[i], "fee") = Num(MathAbs(trade.fee.n))

\* The data of user u: the figures the service held for u, and pairs that
\* were stored for u or made while u was logged in.
OwnData(u, d) ==
    /\ d.monthlyVolumeTarget = StoredAtStart[u].monthlyVolumeTarget
    /\ d.startingEquity = StoredAtStart[u].startingEquity
    /\ \A k \in DOMAIN d.hedgedPairs : d.hedgedPairs[k].owner = u

\* C26: whenever saveUserData(u, d) is called, d is u's own data, never the
\* data loaded for another user nor the state a logout leaves, whatever the
\* order of logins, logouts and completions of loginUser calls.
C26_SavesOwnData == \A c \in saveCalls : OwnData(c.user, c.data)

\* A pair that went through handleSavePair and is on the screen of a
\* logged-in user is still on screen after the step.
KeepsSavedPairs ==
    \A k \in DOMAIN hedgedPairs :
        (currentUser # NoUser /\ hedgedPairs[k].saved)
            => \E j \in DOMAIN hedgedPairs' : hedgedPairs'[j] = hedgedPairs[k]

\* C27: a pair added or edited through handleSavePair stays in hedgedPairs
\* until the user deletes it or logs out: no completion of a loginUser call
\* (a step that takes the call out of the calls in flight) replaces the list
\* with a copy that lacks the pair.
C27_ReloadKeepsSavedPairs == [][inflight' # inflight => KeepsSavedPairs]_vars

\* The latest parse attempt is where the modal's state says it is.
AttemptOutcome ==
    /\ attempt.stage = "started" =>
          /\ modalIsLoading /\ modalError = NoError
          /\ completions[attempt.run] = <<>>
    /\ attempt.stage = "completed" =>
          /\ ~modalIsLoading /\ modalError = NoError
          /\ pc[attempt.run] = "done"
          /\ completions[attempt.run] = <<result[attempt.run]>>
    /\ attempt.stage = "errored" =>
          /\ ~modalIsLoading /\ modalError # NoError
          /\ pc[attempt.run] = "failed"
          /\ completions[attempt.run] = <<>>
    /\ attempt.stage = "blank" => ~modalIsLoading /\ modalError # NoError

\* A step that ends in a blank attempt leaves the parser and isLoading alone.
BlankAttemptIsLocal ==
    attempt'.stage = "blank" =>
        /\ parserVars' = parserVars
        /\ modalIsLoading' = modalIsLoading
        /\ completions' = completions

\* C28: a parse attempt ends in exactly one of two outcomes: onParseComplete
\* called once with the parsed record and no error set, or the error set and
\* onParseComplete not called; isLoading is true from the start of the
\* attempt until it has settled and false afterwards; an attempt on blank
\* text sets the error without calling the parser or setting isLoading.
C28_ParseAttemptOutcomes == []AttemptOutcome /\ [][BlankAttemptIsLocal]_vars

\* C28 witness: one attempt ended with onParseComplete called and no error,
\* the attempt after it (the modal opened again) has ended with the error set.
C28_Witness ==
    /\ attempt = [run |-> 2, stage |-> "errored"]
    /\ completions[1] = <<result[1]>> /\ completions[2] = <<>>
    /\ modalError # NoError /\ ~modalIsLoading

\* C29: applying a parse result to the target trade leaves the target's uid
\* and leverage as they were and leaves the other trade unchanged, for every
\* record parseTradeTextSmart can resolve with.
C29_ParseKeepsUidAndLeverage ==
    [][\A k \in TradeKeys :
          /\ Get(formData'[k], "uid") = Get(formData[k], "uid")
          /\ Get(formData'[k], "leverage") = Get(formData[k], "leverage")
          /\ k # aiTarget => formData'[k] = formData[k]]_vars

\* The text is YYYY-MM-DDTHH:MM:SS with the month in 01..12, the day in
\* 01..31, the hour in 00..23, the minute and the second in 00..59.
ValidDateTime(s) ==
    /\ Len(s) = 19
    /\ \A j \in {1, 2, 3, 4, 6, 7, 9, 10, 12, 13, 15, 16, 18, 19} : s[j] \in Digits
    /\ s[5] = "-" /\ s[8] = "-" /\ s[11] = "T" /\ s[14] = ":" /\ s[17] = ":"
    /\ DigitsVal(SubSeq(s, 6, 7)) \in 1..12
    /\ DigitsVal(SubSeq(s, 9, 10)) \in 1..31
    /\ DigitsVal(SubSeq(s, 12, 13)) \in 0..23
    /\ DigitsVal(SubSeq(s, 15, 16)) \in 0..59
    /\ DigitsVal(SubSeq(s, 18, 19)) \in 0..59

\* C30: whenever parseCustomDate returns a value, the value has its month in
\* 01..12, day in 01..31, hour in 00..23, minute and second in 00..59, for
\* every token of the accepted shape and every meridiem.
C30_DateWithinCalendarAndClock ==
    (numOut.done /\ numOut.fn = "parseCustomDate" /\ numOut.v # Undefined)
        => ValidDateTime(numOut.v.s)

====
